---- MODULE Spec2Model ----
(***************************************************************************)
(* A model of finance_dashboard/parsers/bbva.py: the BBVA statement text   *)
(* parser (period and totals extraction, line assembly, date resolution,   *)
(* seed classification and the exact credit reconciliation search), of     *)
(* the import page pages/2_Import_movements.py with the store lib/db.py,   *)
(* and of the daily ledger lib/ledger.py.                                  *)
(*                                                                         *)
(* Text is modelled by TLA+ strings, read character by character with      *)
(* SubSeq; money is kept in cents (the code's int(round(x * 100)) of its   *)
(* two-decimal floats); a date is the tuple <<year, month, day>>.          *)
(***************************************************************************)
EXTENDS Integers, Sequences, FiniteSets, TLC

VARIABLES
    pc,          \* position of the running call of parse_bbva_statement
    pages_text,  \* the per-page text blocks handed to the call
    period,      \* (start, end) of the statement period, once parsed
    totals,      \* the StatementTotals, or NoTotals (Python None)
    lines,       \* the lines the assembly loop has still to read
    txs,         \* the raw transactions emitted so far
    current,     \* the open raw transaction, or NoCurrent (Python None)
    records,     \* the record dicts built from txs (step 5)
    df,          \* the data frame of the call
    ret,         \* what the call returned or raised
    prev,        \* what the previous call of the process returned
    conn,        \* the rows of the table transactions of the SQLite store
    dedup,       \* the checkbox "Deduplicar" of the import page
    score_arg,   \* the description handed to a call of _credit_score
    score_ret,   \* what that call returned
    calls,       \* the calls of _reconcile_credits in flight, each with its locals
    ledger       \* the call of compute_daily_ledger, with its arguments and locals

\* The variables of the calls of functions other than the parser.
call_vars == <<score_arg, score_ret, calls, ledger>>

\* The variables of the parser and of the import page.
main_vars ==
    <<pc, pages_text, period, totals, lines, txs, current, records, df, ret, prev,
      conn, dedup>>

vars ==
    <<pc, pages_text, period, totals, lines, txs, current, records, df, ret, prev,
      conn, dedup, call_vars>>

(***************************************************************************)
(* Bounds of the model.                                                    *)
(***************************************************************************)
MaxRecords == 3
MaxLines == 3

(***************************************************************************)
(* Python values.                                                          *)
(***************************************************************************)
NoTotals == [present |-> FALSE]
NoCurrent == [open |-> FALSE]
NoPeriod == [parsed |-> FALSE]
Running == [status |-> "running"]
NoCall == [called |-> FALSE]
NoSolution == [found |-> FALSE]
NoLedger == [pc |-> "idle"]
NoScore == [returned |-> FALSE]

\* No function other than the parser has been called.
NoCalls ==
    score_arg = "" /\ score_ret = NoScore /\ calls = <<>> /\ ledger = NoLedger

Returned(frame) == [status |-> "returned", df |-> frame]
Raised(exc, message) == [status |-> "raised", exc |-> exc, message |-> message]

(***************************************************************************)
(* Strings.                                                                *)
(***************************************************************************)
\* s[m-1:n] of Python: the characters m..n of s that exist.
Slice(s, m, n) ==
    LET lo == IF m < 1 THEN 1 ELSE m
        hi == IF n > Len(s) THEN Len(s) ELSE n
    IN  IF lo > hi THEN "" ELSE SubSeq(s, lo, hi)

CharAt(s, i) == Slice(s, i, i)

\* Python's `p in s` for strings.
Contains(p, s) ==
    \E i \in 1..(Len(s) - Len(p) + 1) : Slice(s, i, i + Len(p) - 1) = p

LowerCase == "abcdefghijklmnopqrstuvwxyz"
UpperCase == "ABCDEFGHIJKLMNOPQRSTUVWXYZ"

\* str.upper() on the ASCII letters (other characters are kept).
UpperOf ==
    [c \in {CharAt(LowerCase, i) : i \in 1..26} |->
        CharAt(UpperCase, CHOOSE i \in 1..26 : CharAt(LowerCase, i) = c)]

UpperChar(c) == IF c \in DOMAIN UpperOf THEN UpperOf[c] ELSE c

RECURSIVE upper(_)
upper(s) == IF s = "" THEN "" ELSE UpperChar(Head(s)) \o upper(Tail(s))

(***************************************************************************)
(* Characters, digits and white space (ASCII).                             *)
(***************************************************************************)
Digits == "0123456789"

DigitChars == {Slice(Digits, i, i) : i \in 1..10}
UpperChars == {Slice(UpperCase, i, i) : i \in 1..26}

\* The characters \b counts as part of a word: letters, digits, underscore.
WordChars == DigitChars \cup UpperChars \cup DOMAIN UpperOf \cup {"_", "ó"}

IsDigit(c) == c \in DigitChars

DigitVal(c) == (CHOOSE i \in 1..10 : CharAt(Digits, i) = c) - 1

IsUpperLetter(c) == c \in UpperChars

\* The characters \s matches and str.strip() removes.
IsSpace(c) == c \in {" ", "\t", "\n"}

IsWordChar(c) == c \in WordChars

\* Every character of s is a digit (and there is one): what int() needs.
AllDigits(s) == Len(s) > 0 /\ \A i \in 1..Len(s) : IsDigit(CharAt(s, i))

\* int(s) of a string of digits.
RECURSIVE int(_)
int(s) == IF s = "" THEN 0 ELSE 10 * int(Slice(s, 1, Len(s) - 1)) + DigitVal(CharAt(s, Len(s)))

\* The index after the run of white space that starts at j.
RECURSIVE SkipSpace(_, _)
SkipSpace(s, j) ==
    IF j <= Len(s) /\ IsSpace(CharAt(s, j)) THEN SkipSpace(s, j + 1) ELSE j

\* The length of the run of digits / of capitals that starts at index j of s.
RECURSIVE DigitRun(_, _)
DigitRun(s, j) == IF IsDigit(CharAt(s, j)) THEN 1 + DigitRun(s, j + 1) ELSE 0

RECURSIVE UpperRun(_, _)
UpperRun(s, j) == IF IsUpperLetter(CharAt(s, j)) THEN 1 + UpperRun(s, j + 1) ELSE 0

\* The literal p stands at index j of s.
At(s, j, p) == j >= 1 /\ Slice(s, j, j + Len(p) - 1) = p

\* The first index >= j at which the character c stands in s, or 0.
RECURSIVE Find(_, _, _)
Find(s, c, j) ==
    IF j > Len(s) THEN 0
    ELSE IF SubSeq(s, j, j) = c THEN j
    ELSE Find(s, c, j + 1)

\* str.strip()
RECURSIVE lstrip(_)
lstrip(s) == IF s # "" /\ IsSpace(Head(s)) THEN lstrip(Tail(s)) ELSE s

RECURSIVE rstrip(_)
rstrip(s) ==
    IF s # "" /\ IsSpace(CharAt(s, Len(s))) THEN rstrip(Slice(s, 1, Len(s) - 1)) ELSE s

strip(s) == lstrip(rstrip(s))

\* sep.join(q)
RECURSIVE join(_, _)
join(sep, q) ==
    IF q = <<>> THEN ""
    ELSE IF Len(q) = 1 THEN q[1]
    ELSE q[1] \o sep \o join(sep, Tail(q))

(***************************************************************************)
(* The regular expressions of the parser.  A pattern is a sequence of      *)
(* elements; none of the parser's patterns needs backtracking into an      *)
(* element already matched, except the lazy `.*?`, which takes the first   *)
(* place where the rest of the pattern matches.                            *)
(***************************************************************************)
Elem(kind, text, n) == [kind |-> kind, text |-> text, n |-> n]

Lit(p) == Elem("lit", p, 0)           \* the literal p
Ws == Elem("ws", "", 0)               \* \s+
D(n) == Elem("digits", "", n)         \* \d{n}
Num == Elem("number", "", 0)          \* \d+ (no digit follows it)
Up(n) == Elem("upper", "", n)         \* [A-Z]{n}
Money == Elem("money", "", 0)         \* \d{1,3}(?:,\d{3})*\.\d{2}
WordEnd == Elem("wordend", "", 0)     \* \b
Rest == Elem("rest", "", 0)           \* .*$
AnyLazy == Elem("anylazy", "", 0)     \* .*? under re.DOTALL
Open == Elem("open", "", 0)           \* (
Close == Elem("close", "", 0)         \* )

NoMatch == [ok |-> FALSE]

\* The index after the groups (?:,\d{3})* that start at index k.
RECURSIVE AfterGroups(_, _)
AfterGroups(s, k) ==
    IF At(s, k, ",") /\ DigitRun(s, k + 1) >= 3 THEN AfterGroups(s, k + 4) ELSE k

\* \.\d{2} matched at index e of s: the index after it, or 0.
CentsAt(s, e) == IF At(s, e, ".") /\ DigitRun(s, e + 1) >= 2 THEN e + 3 ELSE 0

\* \d{1,3}(?:,\d{3})*\.\d{2} matched at index j of s, where r digits stand:
\* the index after the match, or 0 when it does not match there.
MoneyAfter(s, j, r) == IF r \in 1..3 THEN CentsAt(s, AfterGroups(s, j + r)) ELSE 0

MoneyAt(s, j) == MoneyAfter(s, j, DigitRun(s, j))

\* j when j lies after i, and 0 otherwise.
IfAfter(j, i) == IF j > i THEN j ELSE 0

\* The index after element e matched at index i of text, or 0.
Step(e, text, i) ==
    CASE e.kind = "lit" -> IF At(text, i, e.text) THEN i + Len(e.text) ELSE 0
      [] e.kind = "ws" -> IfAfter(SkipSpace(text, i), i)
      [] e.kind = "digits" -> IF DigitRun(text, i) >= e.n THEN i + e.n ELSE 0
      [] e.kind = "number" -> IfAfter(i + DigitRun(text, i), i)
      [] e.kind = "upper" -> IF UpperRun(text, i) >= e.n THEN i + e.n ELSE 0
      [] e.kind = "money" -> MoneyAt(text, i)
      [] e.kind = "wordend" ->
            IF IsWordChar(CharAt(text, i - 1)) # IsWordChar(CharAt(text, i)) THEN i ELSE 0
      [] e.kind = "rest" -> IF Find(text, "\n", i) = 0 THEN Len(text) + 1 ELSE 0
      [] OTHER -> i

\* The groups after element e: ( opens one at i, ) closes the last one.
Groups(e, text, i, groups) ==
    CASE e.kind = "open" -> Append(groups, <<i>>)
      [] e.kind = "close" ->
            [groups EXCEPT ![Len(groups)] = Slice(text, groups[Len(groups)][1], i - 1)]
      [] OTHER -> groups

\* pat[k..] matched at index i of text: [ok, end, groups].
Least(S) == CHOOSE x \in S : \A y \in S : x <= y

RECURSIVE match(_, _, _, _, _)

\* pat[k..] matched at the least of the indices starts.
match_first(pat, k, text, starts, groups) ==
    IF starts = {} THEN NoMatch ELSE match(pat, k, text, Least(starts), groups)

\* pat[k+1..] matched at j, the index after pat[k] matched at i.
match_next(pat, k, text, i, j, groups) ==
    IF j = 0 THEN NoMatch
    ELSE match(pat, k + 1, text, j, Groups(pat[k], text, i, groups))

match(pat, k, text, i, groups) ==
    IF k > Len(pat) THEN [ok |-> TRUE, end |-> i - 1, groups |-> groups]
    ELSE IF pat[k].kind = "anylazy"
    THEN match_first(pat, k + 1, text,
                     {j \in i..(Len(text) + 1) : match(pat, k + 1, text, j, groups).ok},
                     groups)
    ELSE match_next(pat, k, text, i, Step(pat[k], text, i), groups)

\* pattern.match(text): the match at the start of text.
re_match(pat, text) == match(pat, 1, text, 1, <<>>)

\* re.search(pattern, text): the leftmost match.
re_search(pat, text) ==
    match_first(pat, 1, text,
                {i \in 1..Len(text) : match(pat, 1, text, i, <<>>).ok}, <<>>)

(***************************************************************************)
(* Calendar dates, <<year, month, day>>.                                   *)
(***************************************************************************)
IsLeap(y) == (y % 4 = 0 /\ y % 100 # 0) \/ y % 400 = 0

DaysInMonth(y, m) ==
    IF m = 2 THEN (IF IsLeap(y) THEN 29 ELSE 28)
    ELSE IF m \in {4, 6, 9, 11} THEN 30 ELSE 31

\* datetime.date(y, m, d) accepts these and raises ValueError otherwise.
IsDate(y, m, d) ==
    /\ y \in 1..9999
    /\ m \in 1..12
    /\ d \in 1..DaysInMonth(y, m)

DateLeq(a, b) ==
    \/ a[1] < b[1]
    \/ a[1] = b[1] /\ a[2] < b[2]
    \/ a[1] = b[1] /\ a[2] = b[2] /\ a[3] <= b[3]

Ok(value) == [ok |-> TRUE, value |-> value]
Err(exc, message) == [ok |-> FALSE, exc |-> exc, message |-> message]

MONTHS ==
    [ENE |-> 1, FEB |-> 2, MAR |-> 3, ABR |-> 4, MAY |-> 5, JUN |-> 6,
     JUL |-> 7, AGO |-> 8, SEP |-> 9, OCT |-> 10, NOV |-> 11, DIC |-> 12]

\* datetime.date(y, m, d)
date(y, m, d) ==
    IF IsDate(y, m, d) THEN Ok(<<y, m, d>>)
    ELSE Err("ValueError", "day is out of range for month")

\* datetime.strptime(g, "%d/%m/%Y").date() of a text that \d{2}/\d{2}/\d{4}
\* matched.
strptime(g) == date(int(Slice(g, 7, 10)), int(Slice(g, 4, 5)), int(Slice(g, 1, 2)))

\* Periodo\s+DEL\s+(\d{2}/\d{2}/\d{4})\s+AL\s+(\d{2}/\d{2}/\d{4})
FullDate == <<Open, D(2), Lit("/"), D(2), Lit("/"), D(4), Close>>

PeriodPattern ==
    <<Lit("Periodo"), Ws, Lit("DEL"), Ws>> \o FullDate \o <<Ws, Lit("AL"), Ws>> \o FullDate

\* A variant that returns the two dates in the other order.
period_dates_swapped(start, end) ==
    IF ~start.ok THEN start
    ELSE IF ~end.ok THEN end
    ELSE Ok([start |-> end.value, end |-> start.value])

\* start, end of the two groups, or the error of the first that fails.
period_dates(start, end) ==
    IF ~start.ok THEN start
    ELSE IF ~end.ok THEN end
    ELSE Ok([start |-> start.value, end |-> end.value])

period_of(m) ==
    IF ~m.ok
    THEN Err("ValueError", "No pude encontrar el periodo del estado de cuenta.")
    ELSE period_dates(strptime(m.groups[1]), strptime(m.groups[2]))

_parse_period(text) == period_of(re_search(PeriodPattern, text))

\* dd_mmm.split("/"): the pieces between the slashes.
RECURSIVE split_slash(_)
split_slash(s) ==
    LET i == Find(s, "/", 1)
    IN  IF i = 0 THEN <<s>>
        ELSE <<Slice(s, 1, i - 1)>> \o split_slash(Slice(s, i + 1, Len(s)))

\* A variant that also moves the start month itself to the end year.
year_of_inclusive(m, start_year, end_year, start_month) ==
    IF m <= start_month THEN end_year ELSE start_year

\* A variant that knows no year but the start year.
year_of_start_only(m, start_year, end_year, start_month) == start_year

\* The year of month m: the end year before the start month.
year_of(m, start_year, end_year, start_month) ==
    IF m < start_month THEN end_year ELSE start_year

\* dt.date(year, m, int(dd)) for the month m of MONTHS.
date_in_period(dd, m, start_year, end_year, start_month) ==
    IF ~AllDigits(dd) THEN Err("ValueError", "invalid literal for int()")
    ELSE date(year_of(m, start_year, end_year, start_month), m, int(dd))

\* A variant that takes the start month for an abbreviation it does not know.
parse_parts_defaulting(dd_mmm, dd, mmm, start_year, end_year, start_month) ==
    IF mmm \notin DOMAIN MONTHS
    THEN date_in_period(dd, start_month, start_year, end_year, start_month)
    ELSE date_in_period(dd, MONTHS[mmm], start_year, end_year, start_month)

\* dd, mmm = parts, with mmm already in capitals.
parse_parts(dd_mmm, dd, mmm, start_year, end_year, start_month) ==
    IF mmm \notin DOMAIN MONTHS
    THEN Err("ValueError", "Mes no reconocido: " \o dd_mmm)
    ELSE date_in_period(dd, MONTHS[mmm], start_year, end_year, start_month)

unpack_parts(dd_mmm, parts, start_year, end_year, start_month) ==
    IF Len(parts) # 2 THEN Err("ValueError", "unpack")
    ELSE parse_parts(dd_mmm, parts[1], upper(parts[2]), start_year, end_year, start_month)

_parse_dd_mmm(dd_mmm, start_year, end_year, start_month) ==
    unpack_parts(dd_mmm, split_slash(dd_mmm), start_year, end_year, start_month)

(***************************************************************************)
(* Seed classifier.                                                        *)
(***************************************************************************)
\* A variant that knows the payroll seed only.
seed_in_nomina_only(u) == Contains("PAGO DE NOMINA", u)

seed_in(u) == Contains("PAGO DE NOMINA", u) \/ Contains("SPEI RECIBIDO", u)

_seed_credit(description) == seed_in(upper(description))

MerchantKeywords ==
    {"OXXO", "STARBUCKS", "AMAZON", "STRIPE", "GOOGLE", "WEB TICKETS", "NAYAX"}

\* A variant that counts ABONO and DEPOS as two rows.
score_in_each_pattern(u) ==
      (IF Contains("NOMINA", u) THEN 10 ELSE 0)
    + (IF Contains("RECIB", u) THEN 8 ELSE 0)
    + (IF Contains("ABONO", u) THEN 4 ELSE 0)
    + (IF Contains("DEPOS", u) THEN 4 ELSE 0)
    - (IF Contains("ENVIADO", u) THEN 12 ELSE 0)
    - (IF Contains("RETIRO", u) THEN 8 ELSE 0)
    - (IF Contains("PAGO TARJETA", u) THEN 6 ELSE 0)
    - (IF \E k \in MerchantKeywords : Contains(k, u) THEN 4 ELSE 0)
    + (IF Contains("PAGO CUENTA DE TERCERO", u) THEN 1 ELSE 0)

score_in(u) ==
      (IF Contains("NOMINA", u) THEN 10 ELSE 0)
    + (IF Contains("RECIB", u) THEN 8 ELSE 0)
    + (IF Contains("ABONO", u) \/ Contains("DEPOS", u) THEN 4 ELSE 0)
    - (IF Contains("ENVIADO", u) THEN 12 ELSE 0)
    - (IF Contains("RETIRO", u) THEN 8 ELSE 0)
    - (IF Contains("PAGO TARJETA", u) THEN 6 ELSE 0)
    - (IF \E k \in MerchantKeywords : Contains(k, u) THEN 4 ELSE 0)
    + (IF Contains("PAGO CUENTA DE TERCERO", u) THEN 1 ELSE 0)

_credit_score(description) == score_in(upper(description))

(***************************************************************************)
(* Money and the statement totals.                                         *)
(***************************************************************************)
RECURSIVE remove_commas(_)
remove_commas(s) ==
    IF s = "" THEN ""
    ELSE IF Head(s) = "," THEN remove_commas(Tail(s))
    ELSE Head(s) \o remove_commas(Tail(s))

\* _mxn_to_float of a text MONEY_RE matched, in cents.
cents_of(t) == 100 * int(Slice(t, 1, Len(t) - 3)) + int(Slice(t, Len(t) - 1, Len(t)))

_mxn_to_float(s) == cents_of(remove_commas(s))

MONEY_RE == <<Open, Money, Close>>

\* monies = MONEY_RE.findall(line1); _mxn_to_float(monies[0]) if monies
\* else 0.0
amount_of(m) == IF m.ok THEN _mxn_to_float(m.groups[1]) ELSE 0

first_amount(line1) == amount_of(re_search(MONEY_RE, line1))

\* TOTAL\s+IMPORTE\s+<kind>\s+(money).*?TOTAL\s+MOVIMIENTOS\s+<kind>\s+(\d+)
TotalsPattern(kind) ==
    <<Lit("TOTAL"), Ws, Lit("IMPORTE"), Ws, Lit(kind), Ws, Open, Money, Close,
      AnyLazy,
      Lit("TOTAL"), Ws, Lit("MOVIMIENTOS"), Ws, Lit(kind), Ws, Open, Num, Close>>

totals_of(m_c, m_a) ==
    IF ~(m_c.ok /\ m_a.ok) THEN NoTotals
    ELSE [present |-> TRUE,
          total_cargos |-> _mxn_to_float(m_c.groups[1]),
          count_cargos |-> int(m_c.groups[2]),
          total_abonos |-> _mxn_to_float(m_a.groups[1]),
          count_abonos |-> int(m_a.groups[2])]

_parse_totals(text) ==
    totals_of(re_search(TotalsPattern("CARGOS"), text),
              re_search(TotalsPattern("ABONOS"), text))

(***************************************************************************)
(* Lines and their roles.                                                  *)
(***************************************************************************)
\* str.splitlines() at "\n".
RECURSIVE splitlines(_)
splitlines(t) ==
    LET i == Find(t, "\n", 1)
    IN  IF t = "" THEN <<>>
        ELSE IF i = 0 THEN <<t>>
        ELSE <<Slice(t, 1, i - 1)>> \o splitlines(Slice(t, i + 1, Len(t)))

\* The stripped, non-empty lines of a page.
RECURSIVE stripped_lines(_)
stripped_lines(q) ==
    IF q = <<>> THEN <<>>
    ELSE IF strip(Head(q)) # "" THEN <<strip(Head(q))>> \o stripped_lines(Tail(q))
    ELSE stripped_lines(Tail(q))

RECURSIVE all_lines(_)
all_lines(pages) ==
    IF pages = <<>> THEN <<>>
    ELSE stripped_lines(splitlines(Head(pages))) \o all_lines(Tail(pages))

SectionAnchor == "Detalle de Movimientos Realizados"

\* ^Total de Movimientos\b
stop_re(ln) == re_match(<<Lit("Total de Movimientos"), WordEnd>>, ln).ok

NoisePrefixes ==
    {"FECHA SALDO", "OPER LIQ", "PAGINA", "No. de Cuenta", "No. de Cliente",
     "Estado de Cuenta", "Libretón", "BBVA MEXICO", "Av. Paseo", "La GAT Real"}

\* ^(FECHA SALDO|OPER LIQ|...|La GAT Real)\b
noise_re(ln) == \E p \in NoisePrefixes : re_match(<<Lit(p), WordEnd>>, ln).ok

\* ^(\d{2}/[A-Z]{3})\s+(\d{2}/[A-Z]{3})\s+(.*)$
ShortDate == <<Open, D(2), Lit("/"), Up(3), Close>>

start_re(ln) ==
    re_match(ShortDate \o <<Ws>> \o ShortDate \o <<Ws, Open, Rest, Close>>, ln)

(***************************************************************************)
(* Records and the frame.                                                  *)
(***************************************************************************)
TwoDigits(n) == CharAt(Digits, ((n \div 10) % 10) + 1) \o CharAt(Digits, (n % 10) + 1)

\* date.isoformat()
isoformat(d) ==
    TwoDigits(d[1] \div 100) \o TwoDigits(d[1] % 100) \o "-" \o TwoDigits(d[2])
        \o "-" \o TwoDigits(d[3])

\* The record dict of one raw transaction, or the error its dates raise.
record_of(op_date, liq_date, line1, description, p) ==
    IF ~op_date.ok THEN op_date
    ELSE IF ~liq_date.ok THEN liq_date
    ELSE Ok([date |-> op_date.value,
             liq_date |-> liq_date.value,
             description |-> description,
             amount |-> first_amount(line1),
             direction |-> IF _seed_credit(description) THEN "credit" ELSE "debit",
             source |-> "bbva_pdf_" \o isoformat(p.start) \o "_" \o isoformat(p.end)])

build_record(tx, p) ==
    record_of(_parse_dd_mmm(tx.op_raw, p.start[1], p.end[1], p.start[2]),
              _parse_dd_mmm(tx.liq_raw, p.start[1], p.end[1], p.start[2]),
              tx.line1,
              strip(join(" ", <<tx.line1>> \o tx.cont)),
              p)

\* A variant that orders equal dates by ascending amount.
RowBefore_ascending(a, b) ==
    \/ a.date # b.date /\ DateLeq(a.date, b.date)
    \/ a.date = b.date /\ a.amount < b.amount

\* Row a goes before row b under sort_values(["date", "amount"],
\* ascending=[True, False]).
RowBefore(a, b) ==
    \/ a.date # b.date /\ DateLeq(a.date, b.date)
    \/ a.date = b.date /\ a.amount > b.amount

\* The sort is stable: rows that tie keep the order of the records.
RECURSIVE InsertRow(_, _)
InsertRow(r, q) ==
    IF q = <<>> THEN <<r>>
    ELSE IF RowBefore(Head(q), r) THEN <<Head(q)>> \o InsertRow(r, Tail(q))
    ELSE <<r>> \o q

RECURSIVE sort_values(_)
sort_values(q) == IF q = <<>> THEN <<>> ELSE InsertRow(Head(q), sort_values(Tail(q)))

(***************************************************************************)
(* Sequences of integers.                                                  *)
(***************************************************************************)
RECURSIVE SumSeq(_)
SumSeq(q) == IF q = <<>> THEN 0 ELSE Head(q) + SumSeq(Tail(q))

RECURSIVE InsertAsc(_, _)
InsertAsc(x, q) ==
    IF q = <<>> THEN <<x>>
    ELSE IF x < Head(q) THEN <<x>> \o q
    ELSE <<Head(q)>> \o InsertAsc(x, Tail(q))

RECURSIVE sorted(_)
sorted(q) == IF q = <<>> THEN <<>> ELSE InsertAsc(Head(q), sorted(Tail(q)))

Reverse(q) == [j \in 1..Len(q) |-> q[Len(q) + 1 - j]]

\* q[:k]
Take(q, k) == SubSeq(q, 1, IF k < Len(q) THEN k ELSE Len(q))

(***************************************************************************)
(* Reconciliation of the credits against the statement totals.             *)
(***************************************************************************)
Range(q) == {q[j] : j \in 1..Len(q)}

\* The indices of q (in order) at which flag holds / does not hold.
RECURSIVE IndicesWhere(_, _, _)
IndicesWhere(flag, want, n) ==
    IF n = 0 THEN <<>>
    ELSE IF flag[n] = want
         THEN Append(IndicesWhere(flag, want, n - 1), n)
         ELSE IndicesWhere(flag, want, n - 1)

\* The sort key (scores[i], cents[i]) compared as Python compares tuples.
KeyLess(C, i, j) ==
    \/ C.scores[i] < C.scores[j]
    \/ C.scores[i] = C.scores[j] /\ C.cents[i] < C.cents[j]

\* list.sort(key, reverse=True) is stable: equal keys keep their order.
RECURSIVE InsertByKeyDesc(_, _, _)
InsertByKeyDesc(C, i, q) ==
    IF q = <<>> THEN <<i>>
    ELSE IF KeyLess(C, i, Head(q))
         THEN <<Head(q)>> \o InsertByKeyDesc(C, i, Tail(q))
         ELSE <<i>> \o q

RECURSIVE SortByKeyDesc(_, _)
SortByKeyDesc(C, q) ==
    IF q = <<>> THEN <<>>
    ELSE InsertByKeyDesc(C, Head(q), SortByKeyDesc(C, Tail(q)))

Solution(score, tuple) == [found |-> TRUE, score |-> score, tuple |-> tuple]

\* A variant that lets the score decide: the k best-scored candidates, or
\* nothing when they miss the sum.
best_by_score(C, pos, k, s) ==
    IF Len(C.candidates) - pos < k THEN NoSolution
    ELSE IF SumSeq([j \in 1..k |-> C.cents[C.candidates[pos + j]]]) = s
    THEN Solution(SumSeq([j \in 1..k |-> C.scores[C.candidates[pos + j]]]),
                  SubSeq(C.candidates, pos + 1, pos + k))
    ELSE NoSolution

\* A variant of the search that prefers leaving a candidate out when the
\* scores tie.
RECURSIVE best_preferring_skip(_, _, _, _)
best_preferring_skip(C, pos, k, s) ==
    LET n == Len(C.candidates)
    IN  IF k = 0 THEN (IF s = 0 THEN Solution(0, <<>>) ELSE NoSolution)
        ELSE IF pos >= n THEN NoSolution
        ELSE IF n - pos < k THEN NoSolution
        ELSE
          LET i == C.candidates[pos + 1]
              taken == IF C.cents[i] <= s
                       THEN best_preferring_skip(C, pos + 1, k - 1, s - C.cents[i])
                       ELSE NoSolution
              withTake == IF taken.found
                          THEN Solution(taken.score + C.scores[i], <<i>> \o taken.tuple)
                          ELSE NoSolution
              skipped == best_preferring_skip(C, pos + 1, k, s)
          IN  IF skipped.found
                 /\ (~withTake.found \/ skipped.score >= withTake.score)
              THEN skipped
              ELSE withTake

\* best(pos, k, s) over C.candidates (sorted), C.cents and C.scores; pos
\* counts from 0 as in the code.
RECURSIVE best(_, _, _, _)
best(C, pos, k, s) ==
    LET n == Len(C.candidates)
    IN  IF k = 0 THEN (IF s = 0 THEN Solution(0, <<>>) ELSE NoSolution)
        ELSE IF pos >= n THEN NoSolution
        ELSE IF n - pos < k THEN NoSolution
        ELSE
          LET remaining == [j \in 1..(n - pos) |-> C.cents[C.candidates[pos + j]]]
          IN  IF SumSeq(Take(Reverse(sorted(remaining)), k)) < s THEN NoSolution
              ELSE IF SumSeq(Take(sorted(remaining), k)) > s THEN NoSolution
              ELSE
                LET i == C.candidates[pos + 1]
                    ci == C.cents[i]
                    si == C.scores[i]
                    taken == IF ci <= s THEN best(C, pos + 1, k - 1, s - ci)
                                        ELSE NoSolution
                    withTake == IF taken.found
                                THEN Solution(taken.score + si, <<i>> \o taken.tuple)
                                ELSE NoSolution
                    skipped == best(C, pos + 1, k, s)
                IN  IF skipped.found
                       /\ (~withTake.found \/ skipped.score > withTake.score)
                    THEN skipped
                    ELSE withTake

\* A variant that forgets what the seeds already cover.
remaining_sum_ignoring_seeds(target_sum, seed_sum) == target_sum

\* remaining_sum = target_sum - seed_sum
remaining_sum(target_sum, seed_sum) == target_sum - seed_sum

\* A variant that classifies no credit at all when there is no solution.
credit_set_unless_unsolved(seed_idx, sol) ==
    IF sol.found THEN Range(seed_idx) \cup Range(sol.tuple) ELSE {}

\* A variant that keeps the solution only in the first call of the parser.
credit_set_first_call_only(seed_idx, sol) ==
    Range(seed_idx) \cup (IF sol.found /\ ~prev.called THEN Range(sol.tuple) ELSE {})

\* credit_set = set(seed_idx) | set(sol or ()); with no search run, sol is
\* no solution and the set is set(seed_idx).
credit_set(seed_idx, sol) ==
    Range(seed_idx) \cup (IF sol.found THEN Range(sol.tuple) ELSE {})

\* cents and scores of the rows unsorted.
Keys(frame, unsorted) ==
    [cents |-> [i \in Range(unsorted) |-> frame[i].amount],
     scores |-> [i \in Range(unsorted) |-> _credit_score(frame[i].description)]]

\* candidates.sort(key=lambda i: (scores[i], cents[i]), reverse=True)
SortedCandidates(K, unsorted) ==
    [candidates |-> SortByKeyDesc(K, unsorted), cents |-> K.cents, scores |-> K.scores]

Candidates(frame, unsorted) == SortedCandidates(Keys(frame, unsorted), unsorted)

\* A variant whose candidates are all the rows, the seeds among them.
Search_over_all_rows(frame, is_seed_credit, k, s) ==
    IF k > 0
    THEN best(Candidates(frame, [i \in 1..Len(frame) |-> i]), 0, k, s)
    ELSE NoSolution

\* The search, run when remaining_k > 0.
Search(frame, is_seed_credit, k, s) ==
    IF k > 0
    THEN best(Candidates(frame, IndicesWhere(is_seed_credit, FALSE, Len(frame))), 0, k, s)
    ELSE NoSolution

SeedSum(frame, seed_idx) == SumSeq([j \in 1..Len(seed_idx) |-> frame[seed_idx[j]].amount])

\* A variant that keeps no more seeds than the declared count of credits.
SeedLocals_trimmed(frame, t, is_seed_credit, seed_idx) ==
    [is_seed_credit |-> is_seed_credit,
     seed_idx |-> Take(seed_idx, t.count_abonos),
     remaining_k |-> t.count_abonos - Len(seed_idx),
     remaining_sum |-> remaining_sum(t.total_abonos, SeedSum(frame, seed_idx))]

SeedLocals(frame, t, is_seed_credit, seed_idx) ==
    [is_seed_credit |-> is_seed_credit,
     seed_idx |-> seed_idx,
     remaining_k |-> t.count_abonos - Len(seed_idx),
     remaining_sum |-> remaining_sum(t.total_abonos, SeedSum(frame, seed_idx))]

SearchLocals(S, sol) ==
    [is_seed_credit |-> S.is_seed_credit,
     seed_idx |-> S.seed_idx,
     remaining_k |-> S.remaining_k,
     remaining_sum |-> S.remaining_sum,
     sol |-> sol,
     credit_set |-> credit_set(S.seed_idx, sol)]

SearchOf(frame, S) ==
    SearchLocals(S, Search(frame, S.is_seed_credit, S.remaining_k, S.remaining_sum))

SeedsOf(frame, t, is_seed_credit) ==
    SearchOf(frame,
             SeedLocals(frame, t, is_seed_credit,
                        IndicesWhere(is_seed_credit, TRUE, Len(frame))))

\* The local variables of one call of _reconcile_credits(df, totals).
Locals(frame, t) ==
    SeedsOf(frame, t, [i \in 1..Len(frame) |-> _seed_credit(frame[i].description)])

\* df["direction"] = df.index.map(...), with the column is_seed_credit added.
Directed(frame, L) ==
    [i \in 1..Len(frame) |->
        [date |-> frame[i].date,
         liq_date |-> frame[i].liq_date,
         description |-> frame[i].description,
         amount |-> frame[i].amount,
         direction |-> IF i \in L.credit_set THEN "credit" ELSE "debit",
         source |-> frame[i].source,
         is_seed_credit |-> L.is_seed_credit[i]]]

_reconcile_credits(frame, t) == Directed(frame, Locals(frame, t))

(***************************************************************************)
(* parse_bbva_statement, step by step.  pc names the step to take next.    *)
(***************************************************************************)
\* full_text = "\n".join(pages_text)
full_text == join("\n", pages_text)

Raise(e) ==
    /\ pc' = "raised"
    /\ ret' = Raised(e.exc, e.message)

\* Step 2: the period.
PeriodResult(r) ==
    IF r.ok
    THEN /\ period' = [parsed |-> TRUE, start |-> r.value.start, end |-> r.value.end]
         /\ pc' = "totals"
         /\ UNCHANGED ret
    ELSE /\ Raise(r)
         /\ UNCHANGED period

ParsePeriod ==
    /\ pc = "period"
    /\ PeriodResult(_parse_period(full_text))
    /\ UNCHANGED <<pages_text, totals, lines, txs, current, records, df, prev, conn, dedup, call_vars>>

\* Step 3: the totals.
ParseTotals ==
    /\ pc = "totals"
    /\ totals' = _parse_totals(full_text)
    /\ pc' = "lines"
    /\ UNCHANGED <<pages_text, period, lines, txs, current, records, df, ret, prev, conn, dedup, call_vars>>

\* A variant that takes the first line for the anchor when none is found.
index_or_top(all, found) == IF found = {} THEN 1 ELSE Least(found)

\* Step 4: the lines after the section anchor.
\* lines.index(anchor), counted from 1, or 0: the first of the places found.
index(all, found) == IF found = {} THEN 0 ELSE Least(found)

SectionAt(all, idx) ==
    IF idx # 0
    THEN /\ lines' = SubSeq(all, idx + 1, Len(all))
         /\ pc' = "loop"
         /\ UNCHANGED ret
    ELSE /\ Raise(Err("ValueError",
                     "No encontré la sección 'Detalle de Movimientos Realizados'."))
         /\ UNCHANGED lines

SectionIn(all) == SectionAt(all, index(all, {i \in 1..Len(all) : all[i] = SectionAnchor}))

FindSection ==
    /\ pc = "lines"
    /\ SectionIn(all_lines(pages_text))
    /\ UNCHANGED <<pages_text, period, totals, txs, current, records, df, prev, conn, dedup, call_vars>>

\* A variant that passes over the stop line and goes on reading.
LineStop_passing ==
    /\ pc = "loop" /\ lines # <<>>
    /\ stop_re(Head(lines))
    /\ lines' = Tail(lines)
    /\ UNCHANGED <<pc, pages_text, period, totals, txs, current, records, df, ret, prev, conn, dedup, call_vars>>

\* The loop over the lines: one action per role of the line read.
LineStop ==
    /\ pc = "loop" /\ lines # <<>>
    /\ stop_re(Head(lines))
    /\ pc' = "flush"
    /\ UNCHANGED <<pages_text, period, totals, lines, txs, current, records, df, ret, prev, conn, dedup, call_vars>>

\* A variant of the noise step that closes the open transaction.
LineNoise_closing ==
    /\ pc = "loop" /\ lines # <<>>
    /\ ~stop_re(Head(lines)) /\ noise_re(Head(lines))
    /\ txs' = IF current.open THEN Append(txs, current) ELSE txs
    /\ current' = NoCurrent
    /\ lines' = Tail(lines)
    /\ UNCHANGED <<pc, pages_text, period, totals, records, df, ret, prev, conn, dedup, call_vars>>

LineNoise ==
    /\ pc = "loop" /\ lines # <<>>
    /\ ~stop_re(Head(lines)) /\ noise_re(Head(lines))
    /\ lines' = Tail(lines)
    /\ UNCHANGED <<pc, pages_text, period, totals, txs, current, records, df, ret, prev, conn, dedup, call_vars>>

\* A variant that opens the new transaction without emitting the open one.
StartTransaction_dropping(m) ==
    /\ m.ok
    /\ txs' = txs
    /\ current' = [open |-> TRUE, op_raw |-> m.groups[1], liq_raw |-> m.groups[2],
                   line1 |-> m.groups[3], cont |-> <<>>]

StartTransaction(m) ==
    /\ m.ok
    /\ txs' = IF current.open THEN Append(txs, current) ELSE txs
    /\ current' = [open |-> TRUE, op_raw |-> m.groups[1], liq_raw |-> m.groups[2],
                   line1 |-> m.groups[3], cont |-> <<>>]

LineStart ==
    /\ pc = "loop" /\ lines # <<>>
    /\ ~stop_re(Head(lines)) /\ ~noise_re(Head(lines))
    /\ StartTransaction(start_re(Head(lines)))
    /\ lines' = Tail(lines)
    /\ UNCHANGED <<pc, pages_text, period, totals, records, df, ret, prev, conn, dedup, call_vars>>

\* A variant of the continuation step that keeps the first continuation
\* line of a transaction only.
LineContinuation_first_only ==
    /\ pc = "loop" /\ lines # <<>>
    /\ ~stop_re(Head(lines)) /\ ~noise_re(Head(lines))
    /\ ~start_re(Head(lines)).ok
    /\ current' = IF current.open /\ current.cont = <<>>
                  THEN [current EXCEPT !.cont = Append(@, Head(lines))]
                  ELSE current
    /\ lines' = Tail(lines)
    /\ UNCHANGED <<pc, pages_text, period, totals, txs, records, df, ret, prev, conn, dedup, call_vars>>

LineContinuation ==
    /\ pc = "loop" /\ lines # <<>>
    /\ ~stop_re(Head(lines)) /\ ~noise_re(Head(lines))
    /\ ~start_re(Head(lines)).ok
    /\ current' = IF current.open
                  THEN [current EXCEPT !.cont = Append(@, Head(lines))]
                  ELSE current
    /\ lines' = Tail(lines)
    /\ UNCHANGED <<pc, pages_text, period, totals, txs, records, df, ret, prev, conn, dedup, call_vars>>

LoopEnd ==
    /\ pc = "loop" /\ lines = <<>>
    /\ pc' = "flush"
    /\ UNCHANGED <<pages_text, period, totals, lines, txs, current, records, df, ret, prev, conn, dedup, call_vars>>

\* After the loop: the open transaction is emitted.
Flush ==
    /\ pc = "flush"
    /\ txs' = IF current.open THEN Append(txs, current) ELSE txs
    /\ pc' = "records"
    /\ UNCHANGED <<pages_text, period, totals, lines, current, records, df, ret, prev, conn, dedup, call_vars>>

\* Step 5: the records of all transactions, or the first error.
FirstError(built, bad) ==
    IF bad = {}
    THEN /\ records' = [i \in 1..Len(built) |-> built[i].value]
         /\ pc' = "sort"
         /\ UNCHANGED ret
    ELSE /\ Raise(built[Least(bad)])
         /\ UNCHANGED records

RecordsOf(built) == FirstError(built, {i \in 1..Len(built) : ~built[i].ok})

BuildRecords ==
    /\ pc = "records"
    /\ RecordsOf([i \in 1..Len(txs) |-> build_record(txs[i], period)])
    /\ UNCHANGED <<pages_text, period, totals, lines, txs, current, df, prev, conn, dedup, call_vars>>

\* pd.DataFrame(records).sort_values(["date", "amount"], ...): a frame of no
\* records has no columns, and sorting it by "date" raises KeyError.
SortFrame ==
    /\ pc = "sort"
    /\ IF records # <<>>
       THEN /\ df' = sort_values(records)
            /\ pc' = "reconcile"
            /\ UNCHANGED ret
       ELSE /\ Raise(Err("KeyError", "date"))
            /\ UNCHANGED df
    /\ UNCHANGED <<pages_text, period, totals, lines, txs, current, records, prev, conn, dedup, call_vars>>

(***************************************************************************)
(* Step 6 of parse_bbva_statement: reconcile when there are totals, return.*)
(***************************************************************************)
Reconcile ==
    /\ pc = "reconcile"
    /\ totals.present /\ Len(df) > 0
    /\ df' = _reconcile_credits(df, totals)
    /\ ret' = Returned(df')
    /\ pc' = "done"
    /\ UNCHANGED <<pages_text, period, totals, lines, txs, current, records, prev, conn, dedup, call_vars>>

ReturnUnreconciled ==
    /\ pc = "reconcile"
    /\ ~(totals.present /\ Len(df) > 0)
    /\ ret' = Returned(df)
    /\ pc' = "done"
    /\ UNCHANGED <<pages_text, period, totals, lines, txs, current, records, df, prev, conn, dedup, call_vars>>

(***************************************************************************)
(* The reconciliation step on its own: every sorted frame of at most       *)
(* MaxRecords records and every declared totals.                           *)
(***************************************************************************)
SampleDescriptions == {"Pago de Nomina", "RETIRO", "Abono"}
SampleAmounts == {0, 5000, 10000}
SampleSums == {5000, 9999, 10000, 15000}
SampleCargos == {<<15000, 2>>}
SampleDate == <<2025, 12, 5>>
SampleSource == "bbva_pdf_2025-12-03_2026-01-02"

SampleRecord(description, amount) ==
    [date |-> SampleDate,
     liq_date |-> SampleDate,
     description |-> description,
     amount |-> amount,
     direction |-> IF _seed_credit(description) THEN "credit" ELSE "debit",
     source |-> SampleSource]

SampleRecords == {SampleRecord(d, a) : d \in SampleDescriptions, a \in SampleAmounts}

\* sort_values(["date", "amount"], ascending=[True, False]) has been applied.
IsSortedFrame(frame) ==
    \A j \in 1..(Len(frame) - 1) :
        \/ frame[j].date # frame[j + 1].date
        \/ frame[j].amount >= frame[j + 1].amount

SampleFrames ==
    UNION {{f \in [1..n -> SampleRecords] : IsSortedFrame(f)} : n \in 1..MaxRecords}

SampleTotals ==
    {NoTotals} \cup
    {[present |-> TRUE,
      total_cargos |-> c[1], count_cargos |-> c[2],
      total_abonos |-> s, count_abonos |-> k] :
        c \in SampleCargos, s \in SampleSums, k \in 0..MaxRecords}

InitReconcile ==
    /\ pc = "reconcile"
    /\ pages_text = <<>>
    /\ period = NoPeriod
    /\ lines = <<>>
    /\ txs = <<>>
    /\ current = NoCurrent
    /\ records \in SampleFrames
    /\ df = records
    /\ totals \in SampleTotals
    /\ ret = Running
    /\ prev = NoCall
    /\ conn = <<>>
    /\ dedup = TRUE /\ NoCalls

NextReconcile == Reconcile \/ ReturnUnreconciled

SpecReconcile == InitReconcile /\ [][NextReconcile]_vars

(***************************************************************************)
(* The whole call, on sample statements of two pages.                      *)
(***************************************************************************)
PeriodLine == "Periodo DEL 03/12/2025 AL 02/01/2026"

TotalsBlocks ==
    {"",
     "TOTAL IMPORTE CARGOS 50.00 TOTAL MOVIMIENTOS CARGOS 1",
     "TOTAL IMPORTE CARGOS 50.00 TOTAL MOVIMIENTOS CARGOS 1\nTOTAL IMPORTE ABONOS 100.00 TOTAL MOVIMIENTOS ABONOS 1",
     "TOTAL IMPORTE CARGOS 50.00 TOTAL MOVIMIENTOS CARGOS 1\nTOTAL IMPORTE ABONOS 150.00 TOTAL MOVIMIENTOS ABONOS 2"}

\* Three start lines, a continuation line and a stop line; the header of
\* page 2 is the noise line among them.
BodyLines ==
    {"05/DIC 05/DIC SPEI RECIBIDO 100.00",
     "02/ENE 02/ENE OXXO 50.00",
     "05/DIC 06/DIC DEPOSITO 50.00",
     "pago de nomina",
     "Total de Movimientos"}

Bodies == UNION {[1..n -> BodyLines] : n \in 0..MaxLines}

\* Page 1 carries the header, the anchor and the first body line; page 2
\* the other body lines.
Statement(head, block, anchor, body) ==
    <<join("\n", <<"BBVA MEXICO", head, block, anchor>> \o Take(body, 1)),
      join("\n", <<"Estado de Cuenta">> \o Tail(IF body = <<>> THEN <<"">> ELSE body))>>

FullStatements ==
    {Statement(PeriodLine, b, SectionAnchor, body) : b \in TotalsBlocks, body \in Bodies}

\* Statements the parse rejects.
BadStatements ==
    {Statement("Periodo 03/12/2025", "", SectionAnchor, <<"02/ENE 02/ENE OXXO 50.00">>),
     Statement("Periodo DEL 31/11/2025 AL 02/01/2026", "", SectionAnchor,
               <<"02/ENE 02/ENE OXXO 50.00">>),
     Statement(PeriodLine, "", "Detalle de Movimientos", <<"02/ENE 02/ENE OXXO 50.00">>),
     Statement(PeriodLine, "", SectionAnchor,
               <<"02/ENE 02/ENE OXXO 50.00", "07/XXX 07/XXX RETIRO 20.00">>),
     Statement(PeriodLine, "", SectionAnchor,
               <<"02/ENE 02/ENE OXXO 50.00", "05/DIC 07/XXX RETIRO 20.00">>),
     Statement(PeriodLine, "", SectionAnchor, <<"31/FEB 31/FEB RETIRO 20.00">>)}

Statements == FullStatements \cup BadStatements

\* The state at the entry of parse_bbva_statement(pages).
Entry(pages) ==
    /\ pc = "period"
    /\ pages_text \in pages
    /\ period = NoPeriod
    /\ totals = NoTotals
    /\ lines = <<>>
    /\ txs = <<>>
    /\ current = NoCurrent
    /\ records = <<>>
    /\ df = <<>>
    /\ ret = Running

Init == Entry(Statements) /\ prev = NoCall /\ conn = <<>> /\ dedup = TRUE /\ NoCalls

Next ==
    \/ ParsePeriod
    \/ ParseTotals
    \/ FindSection
    \/ LineStop
    \/ LineNoise
    \/ LineStart
    \/ LineContinuation
    \/ LoopEnd
    \/ Flush
    \/ BuildRecords
    \/ SortFrame
    \/ Reconcile
    \/ ReturnUnreconciled

Spec == Init /\ [][Next]_vars

(***************************************************************************)
(* Two calls in a row, as when the import page is given one statement and  *)
(* then another: prev keeps what the first call was given and returned.    *)
(***************************************************************************)
CallBlocks ==
    {"",
     "TOTAL IMPORTE CARGOS 50.00 TOTAL MOVIMIENTOS CARGOS 1\nTOTAL IMPORTE ABONOS 100.00 TOTAL MOVIMIENTOS ABONOS 1",
     "TOTAL IMPORTE CARGOS 50.00 TOTAL MOVIMIENTOS CARGOS 1\nTOTAL IMPORTE ABONOS 150.00 TOTAL MOVIMIENTOS ABONOS 2",
     "TOTAL IMPORTE CARGOS 50.00 TOTAL MOVIMIENTOS CARGOS 1\nTOTAL IMPORTE ABONOS 175.00 TOTAL MOVIMIENTOS ABONOS 2"}

CallBodies ==
    {<<"05/DIC 05/DIC SPEI RECIBIDO 100.00", "02/ENE 02/ENE OXXO 50.00">>,
     <<"05/DIC 05/DIC TRASPASO A 100.00", "05/DIC 05/DIC TRASPASO B 100.00",
       "05/DIC 05/DIC TRASPASO C 50.00">>,
     <<"02/ENE 02/ENE OXXO 50.00", "pago de nomina", "Total de Movimientos">>}

CallStatements ==
    {Statement(PeriodLine, b, SectionAnchor, body) : b \in CallBlocks, body \in CallBodies}
    \cup {Statement(PeriodLine, "", SectionAnchor, <<"31/FEB 31/FEB RETIRO 20.00">>)}

InitCalls == Entry(CallStatements) /\ prev = NoCall /\ conn = <<>> /\ dedup = TRUE /\ NoCalls

\* The page runs again with another upload: parse_bbva_statement is called
\* anew, and nothing of the call before is kept by the parser.
NextCall ==
    /\ pc \in {"done", "raised"}
    /\ prev = NoCall
    /\ prev' = [called |-> TRUE, pages_text |-> pages_text, totals |-> totals,
                records |-> records, ret |-> ret]
    /\ pc' = "period"
    /\ pages_text' \in CallStatements
    /\ period' = NoPeriod
    /\ totals' = NoTotals
    /\ lines' = <<>>
    /\ txs' = <<>>
    /\ current' = NoCurrent
    /\ records' = <<>>
    /\ df' = <<>>
    /\ ret' = Running
    /\ UNCHANGED <<conn, dedup, call_vars>>

NextCalls == Next \/ NextCall

SpecCalls == InitCalls /\ [][NextCalls]_vars

(***************************************************************************)
(* The date resolver on its own: one transaction whose tokens and period   *)
(* are drawn, and the step that builds its record.                         *)
(***************************************************************************)
DayTokens == {"01", "02", "05", "29", "30", "31"}
MonthTokens == DOMAIN MONTHS \cup {"XXX"}
LiqTokens == {"02/ENE", "31/DIC"}

SamplePeriods ==
    {[parsed |-> TRUE, start |-> <<2025, 12, 3>>, end |-> <<2026, 1, 2>>],
     [parsed |-> TRUE, start |-> <<2024, 2, 1>>, end |-> <<2024, 2, 29>>],
     [parsed |-> TRUE, start |-> <<2025, 6, 15>>, end |-> <<2025, 7, 14>>],
     [parsed |-> TRUE, start |-> <<2023, 11, 20>>, end |-> <<2024, 2, 10>>]}

SampleTransaction(op_raw, liq_raw) ==
    [open |-> TRUE, op_raw |-> op_raw, liq_raw |-> liq_raw,
     line1 |-> "TRASPASO 10.00", cont |-> <<>>]

InitDates ==
    /\ pc = "records"
    /\ pages_text = <<>>
    /\ period \in SamplePeriods
    /\ totals = NoTotals
    /\ lines = <<>>
    /\ txs \in {<<SampleTransaction(dd \o "/" \o mmm, liq)>> :
                    dd \in DayTokens, mmm \in MonthTokens, liq \in LiqTokens}
    /\ current = NoCurrent
    /\ records = <<>>
    /\ df = <<>>
    /\ ret = Running
    /\ prev = NoCall
    /\ conn = <<>>
    /\ dedup = TRUE /\ NoCalls

NextDates == BuildRecords

SpecDates == InitDates /\ [][NextDates]_vars

(***************************************************************************)
(* The period extraction on its own: texts that declare a period in        *)
(* several ways, and the step that parses it.                              *)
(***************************************************************************)
\* Day, month and year as the statement prints them; not all are dates.
SampleFullDates ==
    {<<2025, 12, 3>>, <<2026, 1, 2>>, <<2024, 2, 29>>, <<2025, 11, 31>>, <<2025, 2, 29>>}

Separators == {" ", "  ", "\n"}

\* dd/mm/yyyy
format_date(d) ==
    TwoDigits(d[3]) \o "/" \o TwoDigits(d[2]) \o "/" \o TwoDigits(d[1] \div 100)
        \o TwoDigits(d[1] % 100)

Declaration(d1, d2, sep) ==
    "DEL" \o sep \o format_date(d1) \o sep \o "AL" \o sep \o format_date(d2)

PeriodPage(declared) == <<"BBVA MEXICO\n" \o declared \o "\nNo. de Cuenta 1">>

PeriodTexts ==
    {PeriodPage("Periodo" \o sep \o Declaration(d1, d2, sep)) :
        d1 \in SampleFullDates, d2 \in SampleFullDates, sep \in Separators}
    \cup {PeriodPage(Declaration(d1, d2, " ")) :
            d1 \in SampleFullDates, d2 \in SampleFullDates}
    \cup {PeriodPage("Periodo " \o Declaration(d1, d2, " ") \o "\nPeriodo "
                        \o Declaration(d2, d1, " ")) :
            d1 \in SampleFullDates, d2 \in SampleFullDates}

InitPeriod == Entry(PeriodTexts) /\ prev = NoCall /\ conn = <<>> /\ dedup = TRUE /\ NoCalls

NextPeriod == ParsePeriod

SpecPeriod == InitPeriod /\ [][NextPeriod]_vars

(***************************************************************************)
(* What the claims speak of, stated without the search: the seed rows, the *)
(* residual target and the exact subsets found by enumeration.             *)
(***************************************************************************)
RECURSIVE AmountSum(_, _)
AmountSum(frame, S) ==
    IF S = {} THEN 0
    ELSE LET i == CHOOSE x \in S : TRUE
         IN  frame[i].amount + AmountSum(frame, S \ {i})

RECURSIVE ScoreSum(_, _)
ScoreSum(frame, S) ==
    IF S = {} THEN 0
    ELSE LET i == CHOOSE x \in S : TRUE
         IN  _credit_score(frame[i].description) + ScoreSum(frame, S \ {i})

\* The description names a seed keyword, compared without regard to case.
NamesSeed(description) ==
    \/ Contains("PAGO DE NOMINA", upper(description))
    \/ Contains("SPEI RECIBIDO", upper(description))

SeedRows(frame) == {i \in 1..Len(frame) : NamesSeed(frame[i].description)}
NonSeedRows(frame) == (1..Len(frame)) \ SeedRows(frame)
CreditRows(frame) == {i \in 1..Len(frame) : frame[i].direction = "credit"}
DebitRows(frame) == {i \in 1..Len(frame) : frame[i].direction = "debit"}

ResidualCount(frame, t) == t.count_abonos - Cardinality(SeedRows(frame))
ResidualSum(frame, t) == t.total_abonos - AmountSum(frame, SeedRows(frame))

\* Every subset of the non-seed rows with exactly k rows and amount sum s.
ExactSubsets(frame, k, s) ==
    {S \in SUBSET NonSeedRows(frame) :
        Cardinality(S) = k /\ AmountSum(frame, S) = s}

FeasibleSubsets(frame, t) ==
    ExactSubsets(frame, ResidualCount(frame, t), ResidualSum(frame, t))

\* Reconciling frame against t runs the search (totals present, records
\* present, residual count > 0), and the search has / has not a solution.
Searched(frame, t) == t.present /\ Len(frame) > 0 /\ ResidualCount(frame, t) > 0
Feasible(frame, t) == Searched(frame, t) /\ FeasibleSubsets(frame, t) # {}
Infeasible(frame, t) == Searched(frame, t) /\ FeasibleSubsets(frame, t) = {}

\* The credits of frame are the declared credits, in sum and in count.
ExactlyMatched(frame, t) ==
    /\ t.present
    /\ AmountSum(frame, CreditRows(frame)) = t.total_abonos
    /\ Cardinality(CreditRows(frame)) = t.count_abonos

\* The frame that the call at hand reconciles: the records, sorted.
InputFrame == sort_values(records)

Ended == pc \in {"done", "raised"}
Completed == pc = "done" /\ ret.status = "returned"
SearchRan == Completed /\ Searched(InputFrame, totals)
ReconciliationSucceeded == Completed /\ Feasible(InputFrame, totals)
ReconciliationInfeasible == Completed /\ Infeasible(InputFrame, totals)

\* The description of a raw transaction: its first line and continuations.
Described(tx) == strip(join(" ", <<tx.line1>> \o tx.cont))

\* The date a short date token stands for within period p, by the rule of
\* the start month; it may name a day that does not exist.
TokenMonth(token) == MONTHS[Slice(token, 4, 6)]

Expected(token, p) ==
    <<IF TokenMonth(token) < p.start[2] THEN p.end[1] ELSE p.start[1],
      TokenMonth(token),
      int(Slice(token, 1, 2))>>

Exists(d) == IsDate(d[1], d[2], d[3])

\* The sample dates that exist in the calendar.
ValidSampleDates == {d \in SampleFullDates : Exists(d)}

\* text declares its period as "Periodo DEL d1 AL d2" at its first "Periodo".
\* The text before the first "Periodo" of text.
BeforePeriodo(text) ==
    Slice(text, 1,
          (CHOOSE i \in 1..Len(text) :
              /\ At(text, i, "Periodo")
              /\ \A j \in 1..(i - 1) : ~At(text, j, "Periodo")) - 1)

BeginsDeclaration(text, d1, d2, sep) ==
    /\ Contains("Periodo", text)
    /\ At(text, Len(BeforePeriodo(text)) + 1, "Periodo" \o sep \o Declaration(d1, d2, sep))

(***************************************************************************)
(* C1: whenever totals are present and the search finds an exact subset,   *)
(* the records finally classified credit have an amount sum equal to the   *)
(* declared credit sum and a count equal to the declared credit count.     *)
(***************************************************************************)
C1_CreditsMatchDeclared ==
    ReconciliationSucceeded =>
        /\ AmountSum(df, CreditRows(df)) = totals.total_abonos
        /\ Cardinality(CreditRows(df)) = totals.count_abonos

\* A success that needed both a seed and two searched records.
C1_Witness ==
    /\ ReconciliationSucceeded
    /\ SeedRows(InputFrame) # {}
    /\ ResidualCount(InputFrame, totals) = 2
    /\ Cardinality(CreditRows(df)) = 3

(***************************************************************************)
(* C2: whenever reconciliation succeeds, the records classified debit have *)
(* an amount sum equal to the declared debit sum and a count equal to the  *)
(* declared debit count.                                                   *)
(***************************************************************************)
C2_DebitsMatchDeclared ==
    ReconciliationSucceeded =>
        /\ AmountSum(df, DebitRows(df)) = totals.total_cargos
        /\ Cardinality(DebitRows(df)) = totals.count_cargos

(***************************************************************************)
(* C3: the search best(0, k, s) returns a subset of exactly k candidates   *)
(* summing to exactly s whose total score is maximal among all such        *)
(* subsets, and no solution if and only if no such subset exists: it       *)
(* agrees with the enumeration of all subsets.                             *)
(***************************************************************************)
C3_SearchIsExactAndMaximal ==
    SearchRan =>
        LET L == Locals(InputFrame, totals)
            F == FeasibleSubsets(InputFrame, totals)
            S == Range(L.sol.tuple)
        IN  /\ L.sol.found <=> F # {}
            /\ L.sol.found =>
                /\ Len(L.sol.tuple) = Cardinality(S)
                /\ S \in F
                /\ L.sol.score = ScoreSum(InputFrame, S)
                /\ \A T \in F : ScoreSum(InputFrame, T) <= L.sol.score
                /\ CreditRows(df) \cap NonSeedRows(InputFrame) = S

\* Scenario B: the chosen record scores lower than a record left out.
C3_Witness ==
    /\ ReconciliationSucceeded
    /\ \E i \in CreditRows(df) \cap NonSeedRows(InputFrame) :
       \E j \in DebitRows(df) :
            _credit_score(df[i].description) < _credit_score(df[j].description)

C5_InfeasibleIsDistinguishable ==
    (/\ Completed
     /\ prev.called
     /\ prev.ret.status = "returned"
     /\ Infeasible(sort_values(prev.records), prev.totals)
     /\ ExactlyMatched(ret.df, totals))
    => ret # prev.ret

(***************************************************************************)
(* C6: in every completed parse, a record whose description (first line    *)
(* joined with its continuation lines, compared without regard to case)    *)
(* contains "PAGO DE NOMINA" or "SPEI RECIBIDO" is returned, and returned  *)
(* as credit, whatever the totals and the outcome of the search.           *)
(***************************************************************************)
C6_SeedsAreCredit ==
    Completed =>
        /\ \A j \in 1..Len(txs) :
            NamesSeed(Described(txs[j])) =>
                \E i \in 1..Len(ret.df) :
                    ret.df[i].description = Described(txs[j])
        /\ \A i \in 1..Len(ret.df) :
            NamesSeed(ret.df[i].description) => ret.df[i].direction = "credit"

\* A seed made by a continuation line in small letters, kept as credit
\* while the search for the other credit is infeasible.
C6_Witness ==
    /\ ReconciliationInfeasible
    /\ \E j \in 1..Len(txs) :
        /\ txs[j].cont # <<>>
        /\ ~NamesSeed(txs[j].line1)
        /\ NamesSeed(Described(txs[j]))
        /\ \E i \in CreditRows(ret.df) : ret.df[i].description = Described(txs[j])

(***************************************************************************)
(* C7: when the totals of the statement are absent, and the parse meets    *)
(* none of its fatal errors (period, section, month, date), the parse      *)
(* completes: it returns as many records as were assembled, and every      *)
(* non-seed record is debit.                                               *)
(***************************************************************************)
C7_AbsentTotalsStillComplete ==
    (/\ Ended
     /\ ~_parse_totals(full_text).present
     /\ ~(ret.status = "raised" /\ ret.exc = "ValueError"))
    => /\ ret.status = "returned"
       /\ Len(ret.df) = Len(txs)
       /\ \A i \in 1..Len(ret.df) :
            ~NamesSeed(ret.df[i].description) => ret.df[i].direction = "debit"

C10_DeclarationIsRecovered ==
    pc # "period" =>
        \A d1 \in ValidSampleDates : \A d2 \in ValidSampleDates :
            (DateLeq(d1, d2) /\ Contains(Declaration(d1, d2, " "), full_text))
            => /\ pc = "totals"
               /\ period.start = d1
               /\ period.end = d2

(***************************************************************************)
(* C10, amended: for every text whose first word "Periodo" begins a        *)
(* declaration "Periodo DEL d1 AL d2" (white space between the words, the  *)
(* dates written dd/mm/yyyy) with d1 and d2 valid dates in either order,   *)
(* period extraction returns (d1, d2); a text without the word "Periodo"   *)
(* has no period and the parse raises.                                     *)
(***************************************************************************)
C10_PeriodoDeclarationIsRecovered ==
    pc # "period" =>
        /\ \A d1 \in ValidSampleDates : \A d2 \in ValidSampleDates :
           \A sep \in Separators :
                BeginsDeclaration(full_text, d1, d2, sep)
                => /\ pc = "totals"
                   /\ period.start = d1
                   /\ period.end = d2
        /\ ~Contains("Periodo", full_text)
           => /\ pc = "raised"
              /\ ret = Raised("ValueError",
                              "No pude encontrar el periodo del estado de cuenta.")

\* A declaration broken over lines, its dates in descending order.
C10_Witness ==
    /\ pc = "totals"
    /\ BeginsDeclaration(full_text, <<2026, 1, 2>>, <<2025, 12, 3>>, "\n")
    /\ period.start = <<2026, 1, 2>>
    /\ period.end = <<2025, 12, 3>>

\* Some position of the text begins a period declaration.
DeclaresPeriod(text) ==
    \E i \in 1..Len(text) :
        /\ At(text, i, "Periodo")
        /\ re_match(PeriodPattern, Slice(text, i, Len(text))).ok

\* The text has no period declaration; the lines have no anchor line.
LacksPeriod == ~DeclaresPeriod(full_text)
LacksSection == SectionAnchor \notin Range(all_lines(pages_text))

\* Some line of the text has the shape of a transaction start.
HasStartLine == \E ln \in Range(all_lines(pages_text)) : start_re(ln).ok

(***************************************************************************)
(* C11: a parse whose text lacks the period declaration, or whose lines    *)
(* contain no line "Detalle de Movimientos Realizados", ends in an error   *)
(* and returns no records: the call never reads a transaction line, builds *)
(* no record, resolves no date and reconciles nothing.                     *)
(***************************************************************************)
C11_NoPeriodOrSectionNoRecords ==
    \/ /\ pc \in {"period", "totals", "lines", "raised"}
       /\ txs = <<>>
       /\ current = NoCurrent
       /\ records = <<>>
       /\ df = <<>>
       /\ ret \in {Running,
                   Raised("ValueError", "No pude encontrar el periodo del estado de cuenta."),
                   Raised("ValueError",
                          "No encontré la sección 'Detalle de Movimientos Realizados'.")}
       /\ pc = "raised" <=> ret # Running
    \/ ~(LacksPeriod \/ LacksSection)

\* A statement with a period and a transaction line but no anchor line.
C11_Witness ==
    /\ pc = "raised"
    /\ LacksSection
    /\ ~LacksPeriod
    /\ HasStartLine
    /\ ret = Raised("ValueError",
                    "No encontré la sección 'Detalle de Movimientos Realizados'.")
    /\ txs = <<>>

\* The abbreviation of a short date token is not one of the twelve.
UnknownMonth(token) == Slice(token, 4, 6) \notin DOMAIN MONTHS

HasUnknownMonth ==
    \E j \in 1..Len(txs) : UnknownMonth(txs[j].op_raw) \/ UnknownMonth(txs[j].liq_raw)

(***************************************************************************)
(* C12: if any assembled transaction has an operation-date or              *)
(* liquidation-date token whose abbreviation is not in the month table,    *)
(* the whole parse ends in an error and returns no records, not even those *)
(* of the transactions before the offending one; no record is returned     *)
(* with a guessed date.                                                    *)
(***************************************************************************)
C12_UnknownMonthAborts ==
    (pc \in {"sort", "reconcile", "done", "raised"} /\ HasUnknownMonth) =>
        /\ pc = "raised"
        /\ ret.status = "raised"
        /\ ret.exc = "ValueError"
        /\ records = <<>>
        /\ df = <<>>

\* The second of two transactions has an unknown liquidation month only;
\* the first is well formed and is not returned either.
C12_Witness ==
    /\ pc = "raised"
    /\ Len(txs) = 2
    /\ ~UnknownMonth(txs[1].op_raw) /\ ~UnknownMonth(txs[1].liq_raw)
    /\ ~UnknownMonth(txs[2].op_raw) /\ UnknownMonth(txs[2].liq_raw)
    /\ ret = Raised("ValueError", "Mes no reconocido: 07/XXX")
    /\ records = <<>>

\* Date a is strictly before date b.
Earlier(a, b) ==
    \/ a[1] < b[1]
    \/ a[1] = b[1] /\ a[2] < b[2]
    \/ a[1] = b[1] /\ a[2] = b[2] /\ a[3] < b[3]

InOrder(r, s) == Earlier(r.date, s.date) \/ (r.date = s.date /\ r.amount >= s.amount)

(***************************************************************************)
(* C13: in every returned record sequence, reconciled or not, consecutive  *)
(* records r[i], r[i+1] have operation dates in strictly ascending order,  *)
(* or equal operation dates and amount(r[i]) >= amount(r[i+1]).            *)
(***************************************************************************)
C13_ReturnedInOrder ==
    Completed =>
        \A i \in 1..(Len(ret.df) - 1) : InOrder(ret.df[i], ret.df[i + 1])

\* A reconciled result of three records that were assembled in another
\* order, two of them on one date with different amounts.
C13_Witness ==
    /\ Completed
    /\ totals.present
    /\ Len(ret.df) = 3
    /\ ~InOrder(records[1], records[2])
    /\ ~InOrder(records[2], records[3])
    /\ \E i \in 1..2 :
        /\ ret.df[i].date = ret.df[i + 1].date
        /\ ret.df[i].amount > ret.df[i + 1].amount

(***************************************************************************)
(* The lines of the statement as the claims about assembly speak of them.  *)
(***************************************************************************)
\* The lines after the first anchor line.
AfterAnchor(all) ==
    IF SectionAnchor \in Range(all)
    THEN SubSeq(all, Least({i \in 1..Len(all) : all[i] = SectionAnchor}) + 1, Len(all))
    ELSE <<>>

SectionLines == AfterAnchor(all_lines(pages_text))

\* The lines before the first stop line.
RECURSIVE UntilStop(_)
UntilStop(q) ==
    IF q = <<>> THEN <<>>
    ELSE IF stop_re(Head(q)) THEN <<>>
    ELSE <<Head(q)>> \o UntilStop(Tail(q))

RECURSIVE WithoutNoise(_)
WithoutNoise(q) ==
    IF q = <<>> THEN <<>>
    ELSE IF noise_re(Head(q)) THEN WithoutNoise(Tail(q))
    ELSE <<Head(q)>> \o WithoutNoise(Tail(q))

\* The lines from the first transaction-start line on.
RECURSIVE FromStart(_)
FromStart(q) ==
    IF q = <<>> THEN <<>>
    ELSE IF start_re(Head(q)).ok THEN q
    ELSE FromStart(Tail(q))

\* The lines between anchor and stop that are not noise.
TextLines == WithoutNoise(UntilStop(SectionLines))

IsStartLine(ln) == start_re(ln).ok
StartLines == {i \in 1..Len(TextLines) : IsStartLine(TextLines[i])}

\* What a line gives to a description: a start line its text after the two
\* dates, any other line the whole of it.
TextOf(ln) == IF IsStartLine(ln) THEN start_re(ln).groups[3] ELSE ln

TextsOf(q) == [i \in 1..Len(q) |-> TextOf(q[i])]

\* The match of start_re on each line of q.
RECURSIVE Matches(_)
Matches(q) ==
    IF q = <<>> THEN <<>>
    ELSE <<start_re(Head(q))>> \o Matches(Tail(q))

\* TextsOf(FromStart(q)), m being the matches of the lines of q.
TextsFromStart(q, m) ==
    SubSeq([i \in 1..Len(q) |-> IF m[i].ok THEN m[i].groups[3] ELSE q[i]],
           Least({i \in 1..(Len(q) + 1) : i = Len(q) + 1 \/ m[i].ok}),
           Len(q))

\* The pieces of text of the transactions emitted, in order.
RECURSIVE Pieces(_)
Pieces(t) ==
    IF t = <<>> THEN <<>>
    ELSE <<Head(t).line1>> \o Head(t).cont \o Pieces(Tail(t))

\* The loop and the flush are over.
Assembled == pc \in {"records", "sort", "reconcile", "done"}

\* Each record describes its transaction, and the frame returned holds the
\* records, each once.
RecordsDescribeTransactions ==
    /\ pc \in {"sort", "reconcile", "done"} =>
        /\ Len(records) = Len(txs)
        /\ \A j \in 1..Len(txs) : records[j].description = Described(txs[j])
    /\ Completed =>
        /\ Len(ret.df) = Len(records)
        /\ \E f \in [1..Len(records) -> 1..Len(records)] :
            /\ \A i \in 1..Len(records) : \A j \in 1..Len(records) : f[i] = f[j] => i = j
            /\ \A i \in 1..Len(records) : ret.df[f[i]].description = records[i].description

(***************************************************************************)
(* C14, as stated: every non-empty line after the section anchor and       *)
(* before the first stop line that is not a noise line contributes its     *)
(* text to the description of exactly one emitted record, the lines before *)
(* the first transaction-start line included.                              *)
(***************************************************************************)
C14_NoTextLineIsDropped ==
    Assembled =>
        /\ Pieces(txs) = TextsOf(TextLines)
        /\ RecordsDescribeTransactions

(***************************************************************************)
(* C14, amended: every non-empty line from the first transaction-start     *)
(* line on and before the first stop line that is not a noise line         *)
(* contributes its text to the description of exactly one emitted record,  *)
(* in the order of the lines; the lines before the first transaction-start *)
(* line contribute to no record.                                           *)
(***************************************************************************)
C14_NoTextLineIsDroppedAfterFirstStart ==
    Assembled =>
        /\ Pieces(txs) = TextsFromStart(TextLines, Matches(TextLines))
        /\ RecordsDescribeTransactions

\* A completed parse of a line without a transaction, then a transaction
\* with a continuation line.
C14_Witness ==
    /\ Completed
    /\ Len(TextLines) = 3
    /\ StartLines = {2}
    /\ Len(ret.df) = 1
    /\ ret.df[1].description = TextOf(TextLines[2]) \o " " \o TextLines[3]

\* The k-th of a set of positions, counted from 1.
Nth(S, k) == CHOOSE i \in S : Cardinality({j \in S : j < i}) = k - 1

\* The lines of q after position i and before the next start line, m
\* being the matches of the lines of q.
RECURSIVE Following(_, _, _)
Following(q, m, i) ==
    IF i >= Len(q) THEN <<>>
    ELSE IF m[i + 1].ok THEN <<>>
    ELSE <<q[i + 1]>> \o Following(q, m, i + 1)

\* The transaction that a start line with the groups g opens, with the
\* continuation lines cont.
OpenedBy(ln, g, cont) ==
    [open |-> TRUE,
     op_raw |-> Slice(ln, 1, 6),
     liq_raw |-> g[2],
     line1 |-> g[3],
     cont |-> cont]

\* The transaction that the start line at position i of q opens, with all
\* the continuation lines that follow it.
Opened(q, m, i) == OpenedBy(q[i], m[i].groups, Following(q, m, i))

\* The transactions t are those of the start lines of q at the positions S.
OnePerStart(t, q, m, S) ==
    /\ Len(t) = Cardinality(S)
    /\ \A k \in 1..Len(t) : t[k] = Opened(q, m, Nth(S, k))

StartsOf(m) == {i \in 1..Len(m) : m[i].ok}

OnePerMatch(t, q, m) == OnePerStart(t, q, m, StartsOf(m))

OnePerStartLine(t, q) == OnePerMatch(t, q, Matches(q))

(***************************************************************************)
(* C16: every transaction-start line after the section anchor and before   *)
(* the first stop line yields exactly one emitted record, in line order,   *)
(* with all the continuation lines collected up to the next start line,    *)
(* the stop line or the end of input; the number of emitted records, and   *)
(* of records returned, equals the number of such start lines.             *)
(***************************************************************************)
C16_OneRecordPerStartLine ==
    Assembled =>
        /\ OnePerStartLine(txs, TextLines)
        /\ Completed => Len(ret.df) = Len(txs)

\* Two start lines and no stop line: the second transaction is open, with
\* a continuation line, when the input ends.
C16_Witness ==
    /\ Completed
    /\ UntilStop(SectionLines) = SectionLines
    /\ StartLines = {1, 2}
    /\ Len(TextLines) = 3
    /\ Len(ret.df) = 2
    /\ txs[2].cont = <<TextLines[3]>>

(***************************************************************************)
(* The import page (pages/2_Import_movements.py) and the table             *)
(* transactions of the store (lib/db.py).  A row of the table is a record  *)
(* with the columns id, tx_date, tx_type, from_account, to_account, amount *)
(* and description; created_at, the time of the insert, is no part of any  *)
(* key and is left out.                                                    *)
(***************************************************************************)
MaxStored == 4
MaxRows == 2

\* A missing cell of a data frame, and the NULL of a column.
NaN == "<NaN>"
None == "<None>"

ACCOUNTS == {"BBVA", "Nu Turbo", "Nu 7.3", "Openbank"}
EXTERNAL == "EXTERNAL"
valid_types == {"deposit", "withdrawal", "transfer"}
valid_accounts == ACCOUNTS \cup {EXTERNAL}

\* date.fromisoformat of the text "yyyy-mm-dd".
fromisoformat(s) == <<int(Slice(s, 1, 4)), int(Slice(s, 6, 7)), int(Slice(s, 9, 10))>>

\* str(v) of a description cell: None prints as "None".
str(v) == IF v = None THEN "None" ELSE v

\* df["description"].fillna("").astype(str)
fillna(v) == IF v = NaN THEN "" ELSE v

\* validate_and_normalize raises ValueError on these frames.
IsValidFrame(frame) ==
    \A i \in 1..Len(frame) :
        /\ frame[i].tx_type \in valid_types
        /\ frame[i].from_account \in valid_accounts
        /\ frame[i].to_account \in valid_accounts
        /\ frame[i].tx_type = "transfer" => frame[i].from_account # frame[i].to_account

validate_and_normalize(frame) ==
    [i \in 1..Len(frame) |->
        [tx_date |-> fromisoformat(frame[i].tx_date),
         tx_type |-> frame[i].tx_type,
         from_account |-> frame[i].from_account,
         to_account |-> frame[i].to_account,
         amount |-> frame[i].amount,
         description |-> fillna(frame[i].description)]]

\* load_transactions: the rows of the table, tx_date turned into a date.
load_transactions(rows) ==
    [i \in 1..Len(rows) |-> [rows[i] EXCEPT !.tx_date = fromisoformat(@)]]

\* tuple(str(r[c]) for c in key_cols); the amount is a float on both sides
\* and is kept as the number.
key_of(r) ==
    <<isoformat(r.tx_date), r.tx_type, r.from_account, r.to_account, r.amount,
      str(r.description)>>

existing_keys(existing) == {key_of(existing[i]) : i \in 1..Len(existing)}

\* The rows of df_norm whose key is not among keys, in order.
RECURSIVE keep(_, _)
keep(df_norm, keys) ==
    IF df_norm = <<>> THEN <<>>
    ELSE IF key_of(Head(df_norm)) \notin keys
         THEN <<Head(df_norm)>> \o keep(Tail(df_norm), keys)
         ELSE keep(Tail(df_norm), keys)

\* The rows left by the deduplication step of the button handler.
deduplicated(df_norm, existing, checked) ==
    IF checked /\ existing # <<>> THEN keep(df_norm, existing_keys(existing)) ELSE df_norm

\* r["description"].strip() or None
strip_or_none(d) == IF strip(d) = "" THEN None ELSE strip(d)

\* INSERT INTO transactions(...) VALUES(...): a new row, whatever the table holds.
insert_transaction(rows, tx_date, tx_type, from_account, to_account, amount, description) ==
    Append(rows,
           [id |-> Len(rows) + 1,
            tx_date |-> tx_date,
            tx_type |-> tx_type,
            from_account |-> from_account,
            to_account |-> to_account,
            amount |-> amount,
            description |-> description])

\* for _, r in df_norm.iterrows(): insert_transaction(...)
RECURSIVE insert_rows(_, _)
insert_rows(rows, df_norm) ==
    IF df_norm = <<>> THEN rows
    ELSE insert_rows(insert_transaction(rows,
                                        isoformat(Head(df_norm).tx_date),
                                        Head(df_norm).tx_type,
                                        Head(df_norm).from_account,
                                        Head(df_norm).to_account,
                                        Head(df_norm).amount,
                                        strip_or_none(Head(df_norm).description)),
                     Tail(df_norm))

imported(rows, df_norm, checked) ==
    insert_rows(rows, deduplicated(df_norm, load_transactions(rows), checked))

\* The rows of the files uploaded.
SampleRows ==
    {[tx_date |-> "2026-01-01", tx_type |-> t, from_account |-> EXTERNAL,
      to_account |-> "BBVA", amount |-> a, description |-> d] :
        t \in {"deposit"}, a \in {100, 250}, d \in {NaN, "Nomina", " Nomina "}}
    \cup {[tx_date |-> "2026-01-01", tx_type |-> "income", from_account |-> EXTERNAL,
           to_account |-> "BBVA", amount |-> 100, description |-> "Nomina"]}

SampleFiles == UNION {[1..n -> SampleRows] : n \in 1..MaxRows}

\* The button "Importar al dashboard", shown once the file uploaded is valid.
ImportButton ==
    /\ \E df_in \in SampleFiles :
        /\ IsValidFrame(df_in)
        /\ Len(conn) + Len(df_in) <= MaxStored
        /\ conn' = imported(conn, validate_and_normalize(df_in), dedup)
    /\ UNCHANGED <<pc, pages_text, period, totals, lines, txs, current, records, df, ret,
                   prev, dedup, call_vars>>

\* The checkbox "Deduplicar" is clicked.
ToggleDedup ==
    /\ dedup' = ~dedup
    /\ UNCHANGED <<pc, pages_text, period, totals, lines, txs, current, records, df, ret,
                   prev, conn, call_vars>>

InitImport ==
    /\ pc = "idle"
    /\ pages_text = <<>>
    /\ period = NoPeriod
    /\ totals = NoTotals
    /\ lines = <<>>
    /\ txs = <<>>
    /\ current = NoCurrent
    /\ records = <<>>
    /\ df = <<>>
    /\ ret = Running
    /\ prev = NoCall
    /\ conn = <<>>
    /\ dedup = TRUE /\ NoCalls

NextImport == ImportButton \/ ToggleDedup

SpecImport == InitImport /\ [][NextImport]_vars

\* The content of a stored row: its columns but the id, the description
\* normalized (stripped, NULL as the empty text).
Normalized(d) == IF d = None THEN "" ELSE strip(d)

Content(row) ==
    <<row.tx_date, row.tx_type, row.from_account, row.to_account, row.amount,
      Normalized(row.description)>>

EachStoredOnce(rows) ==
    \A i \in 1..Len(rows) : \A j \in 1..Len(rows) :
        Content(rows[i]) = Content(rows[j]) => i = j

(***************************************************************************)
(* C15: insertion into the store is idempotent by content: an import with  *)
(* deduplication enabled into a store that holds each distinct record      *)
(* (date, type, fromAccount, toAccount, amount, normalized description)    *)
(* once leaves a store that holds each distinct record once, whether the   *)
(* file is imported a second time or holds the same row twice, and also    *)
(* for rows whose description is empty or has surrounding white space.     *)
(***************************************************************************)
C15_ImportStoresEachRecordOnce ==
    [][(dedup /\ EachStoredOnce(conn)) => EachStoredOnce(conn')]_vars

\* The role of a line, by the precedence stop, noise, start, continuation.
Role(ln) ==
    IF stop_re(ln) THEN "stop"
    ELSE IF noise_re(ln) THEN "noise"
    ELSE IF IsStartLine(ln) THEN "start"
    ELSE "continuation"

\* What the loop does with the line it reads, by the role of the line.
StepByRole ==
    (pc = "loop" /\ lines # <<>>) =>
        /\ Role(Head(lines)) = "stop" =>
            /\ pc' = "flush"
            /\ txs' = txs /\ current' = current /\ lines' = lines
        /\ Role(Head(lines)) = "noise" =>
            /\ pc' = "loop"
            /\ txs' = txs /\ current' = current /\ lines' = Tail(lines)
        /\ Role(Head(lines)) = "start" =>
            /\ pc' = "loop"
            /\ txs' = (IF current.open THEN Append(txs, current) ELSE txs)
            /\ current'.open /\ current'.cont = <<>>
            /\ current'.op_raw \o " " \o current'.liq_raw \o " " \o current'.line1
                    = Head(lines)
            /\ lines' = Tail(lines)
        /\ Role(Head(lines)) = "continuation" =>
            /\ pc' = "loop"
            /\ txs' = txs
            /\ current' = (IF current.open
                           THEN [current EXCEPT !.cont = Append(@, Head(lines))]
                           ELSE current)
            /\ lines' = Tail(lines)

\* The first stop line and all the lines after it.
FromStop == SubSeq(SectionLines, Len(UntilStop(SectionLines)) + 1, Len(SectionLines))

\* Once the loop is over, the lines from the first stop line on are left
\* unread, and the transactions hold no more than the lines before it.
StopEndsCollection ==
    pc \in {"flush", "records", "sort", "reconcile", "done"} =>
        /\ lines = FromStop
        /\ Len(txs) <= Cardinality(StartLines)
        /\ Len(Pieces(txs)) <= Len(TextLines)

(***************************************************************************)
(* C17: the role of a line is decided with the precedence stop, noise,     *)
(* start, continuation, and a stop line ends the collection at once: no    *)
(* line at or after the first stop line, be it a well-formed start line or *)
(* a line of a later page, opens a record or is appended to one.           *)
(***************************************************************************)
C17_StopEndsCollectionAtOnce == [][StepByRole]_vars /\ []StopEndsCollection

\* A completed parse of one transaction, a stop line and after it a
\* well-formed start line that is not read.
C17_Witness ==
    /\ Completed
    /\ Len(ret.df) = 1
    /\ Len(FromStop) = 2
    /\ Role(FromStop[1]) = "stop"
    /\ Role(FromStop[2]) = "start"
    /\ lines = FromStop

\* The loop reads a noise line: the assembler state stays as it is.
NoiseStepKeepsState ==
    (pc = "loop" /\ lines # <<>> /\ Role(Head(lines)) = "noise") =>
        /\ txs' = txs
        /\ current' = current
        /\ records' = records
        /\ lines' = Tail(lines)
        /\ pc' = "loop"

\* The lines read by the loop, the noise lines among them.
ReadLines == UntilStop(SectionLines)

\* The start lines of q among its first p lines.
StartsBefore(q, p) == {i \in 1..p : Role(q[i]) = "start"}

\* A continuation line that follows a noise line belongs to the transaction
\* of the last start line before the noise line.
ContinuationAcrossNoise ==
    Assembled =>
        \A p \in 2..Len(ReadLines) :
            (/\ Role(ReadLines[p]) = "continuation"
             /\ Role(ReadLines[p - 1]) = "noise"
             /\ StartsBefore(ReadLines, p) # {})
            => \E c \in 1..Len(txs[Cardinality(StartsBefore(ReadLines, p))].cont) :
                    txs[Cardinality(StartsBefore(ReadLines, p))].cont[c] = ReadLines[p]

(***************************************************************************)
(* C18: a noise line leaves the assembler state unchanged: it neither      *)
(* closes the open record, nor emits a record, nor adds text to any        *)
(* description; a continuation line that follows a noise line, as after    *)
(* the running header of a page break, is appended to the record that was  *)
(* open before the noise line.                                             *)
(***************************************************************************)
C18_NoiseLeavesAssemblerUnchanged ==
    [][NoiseStepKeepsState]_vars /\ []ContinuationAcrossNoise

\* A transaction on page 1 and, after the running header of page 2, its
\* continuation line; the record returned has both texts.
C18_Witness ==
    /\ Completed
    /\ Len(ReadLines) = 3
    /\ Role(ReadLines[1]) = "start"
    /\ Role(ReadLines[2]) = "noise"
    /\ Role(ReadLines[3]) = "continuation"
    /\ Len(ret.df) = 1
    /\ ret.df[1].description = TextOf(ReadLines[1]) \o " " \o ReadLines[3]

\* Reconciling frame against t selects nothing beyond the seeds: totals
\* present, records present, residual count <= 0.
SeedsSuffice(frame, t) == t.present /\ Len(frame) > 0 /\ ResidualCount(frame, t) <= 0

SearchOrder(frame) ==
    Candidates(frame,
               IndicesWhere([i \in 1..Len(frame) |-> NamesSeed(frame[i].description)],
                            FALSE, Len(frame))).candidates

\* The feasible subsets of the highest total score.
TopSubsets(frame, t) ==
    {S \in FeasibleSubsets(frame, t) :
        \A T \in FeasibleSubsets(frame, t) : ScoreSum(frame, T) <= ScoreSum(frame, S)}

\* S goes before T in include-before-exclude order over q: at the first
\* position of q where they differ, S has the candidate.
IncludesFirst(q, S, T) ==
    \A p \in 1..Len(q) :
        (/\ (q[p] \in S) # (q[p] \in T)
         /\ \A r \in 1..(p - 1) : (q[r] \in S) = (q[r] \in T))
        => q[p] \in S

\* The non-seed rows that the reconciliation made credit.
Chosen == CreditRows(df) \cap NonSeedRows(InputFrame)

SampleWords ==
    <<"Pago de Nomina", "SPEI Recibido", "abono", "Deposito", "SPEI ENVIADO",
      "Retiro", "PAGO TARJETA", "Tarjeta", "oxxo", "AMAZON", "Pago cuenta de tercero">>

\* The words of q at the positions S, in the order of q.
RECURSIVE Chosen_words(_, _, _)
Chosen_words(q, S, i) ==
    IF i > Len(q) THEN <<>>
    ELSE (IF i \in S THEN <<q[i]>> ELSE <<>>) \o Chosen_words(q, S, i + 1)

ScoredDescriptions ==
    {join(" ", Chosen_words(SampleWords, S, 1)) : S \in SUBSET (1..Len(SampleWords))}

\* scores[i] = _credit_score(df.loc[i, "description"])
CallCreditScore ==
    /\ pc = "score"
    /\ score_ret' = [returned |-> TRUE, value |-> _credit_score(score_arg)]
    /\ pc' = "done"
    /\ UNCHANGED <<pages_text, period, totals, lines, txs, current, records, df, ret,
                   prev, conn, dedup, score_arg, calls, ledger>>

InitScore ==
    /\ pc = "score"
    /\ pages_text = <<>>
    /\ period = NoPeriod
    /\ totals = NoTotals
    /\ lines = <<>>
    /\ txs = <<>>
    /\ current = NoCurrent
    /\ records = <<>>
    /\ df = <<>>
    /\ ret = Running
    /\ prev = NoCall
    /\ conn = <<>>
    /\ dedup = TRUE
    /\ score_arg \in ScoredDescriptions
    /\ score_ret = NoScore
    /\ calls = <<>>
    /\ ledger = NoLedger

NextScore == CallCreditScore

SpecScore == InitScore /\ [][NextScore]_vars

\* The table of the score: the patterns of each row and its delta.
ScoreTable ==
    <<[patterns |-> {"NOMINA"}, delta |-> 10],
      [patterns |-> {"RECIB"}, delta |-> 8],
      [patterns |-> {"ABONO", "DEPOS"}, delta |-> 4],
      [patterns |-> {"PAGO CUENTA DE TERCERO"}, delta |-> 1],
      [patterns |-> {"ENVIADO"}, delta |-> 0 - 12],
      [patterns |-> {"RETIRO"}, delta |-> 0 - 8],
      [patterns |-> {"PAGO TARJETA"}, delta |-> 0 - 6],
      [patterns |-> {"OXXO", "STARBUCKS", "AMAZON", "STRIPE", "GOOGLE", "WEB TICKETS",
                     "NAYAX"},
       delta |-> 0 - 4]>>

\* The rows of the table with a pattern present in the text u.
RowsPresent(u) ==
    {i \in 1..Len(ScoreTable) : \E p \in ScoreTable[i].patterns : Contains(p, u)}

\* The sum of the deltas of the rows R, each once.
TableSum(R) == SumSeq([i \in 1..Len(ScoreTable) |-> IF i \in R THEN ScoreTable[i].delta ELSE 0])

(***************************************************************************)
(* C21: the plausibility score of a description is the sum of the deltas   *)
(* of the rows of the table whose pattern is present in the description    *)
(* in upper case, each row at most once however many of its patterns are   *)
(* present; a description matching no row scores 0.                        *)
(***************************************************************************)
C21_ScoreIsTableSum ==
    (pc = "done" /\ score_ret.returned) =>
        /\ score_ret.value = TableSum(RowsPresent(upper(score_arg)))
        /\ RowsPresent(upper(score_arg)) = {} => score_ret.value = 0

\* Every row is present, two of them by two patterns each.
C21_Witness ==
    /\ pc = "done"
    /\ score_ret.returned
    /\ RowsPresent(upper(score_arg)) = 1..Len(ScoreTable)
    /\ Contains("ABONO", upper(score_arg)) /\ Contains("DEPOS", upper(score_arg))
    /\ Contains("OXXO", upper(score_arg)) /\ Contains("AMAZON", upper(score_arg))
    /\ score_ret.value = 0 - 7

\* The locals L of a call that reconciles frame against t keep the seeds
\* out of the search and count them once.
SeedsCountedOnce(L, frame, t, out) ==
    /\ Range(L.seed_idx) = SeedRows(frame)
    /\ L.remaining_k = ResidualCount(frame, t)
    /\ L.remaining_sum = ResidualSum(frame, t)
    /\ L.sol.found =>
        /\ Range(L.sol.tuple) \cap SeedRows(frame) = {}
        /\ Cardinality(Range(L.sol.tuple)) = Len(L.sol.tuple)
        /\ Len(L.sol.tuple) = ResidualCount(frame, t)
        /\ AmountSum(frame, Range(L.sol.tuple)) = ResidualSum(frame, t)
        /\ CreditRows(out) = SeedRows(frame) \cup Range(L.sol.tuple)
        /\ Cardinality(CreditRows(out)) = t.count_abonos
        /\ AmountSum(out, CreditRows(out)) = t.total_abonos

(***************************************************************************)
(* C22: seed records are excluded from the candidates of the search and    *)
(* counted exactly once toward the credit target: the subset the search    *)
(* returns never contains a seed record, and the search is run against the *)
(* declared credit count less the number of seed records and the declared  *)
(* credit sum less the sum of the seed amounts.                            *)
(***************************************************************************)
C22_SeedsOutsideTheSearch ==
    SearchRan => SeedsCountedOnce(Locals(InputFrame, totals), InputFrame, totals, df)

\* A seed and two other records, one of them chosen by the search.
C22_Witness ==
    /\ SearchRan
    /\ Cardinality(SeedRows(InputFrame)) = 1
    /\ Cardinality(NonSeedRows(InputFrame)) = 2
    /\ Locals(InputFrame, totals).sol.found
    /\ Len(Locals(InputFrame, totals).sol.tuple) = 1
    /\ totals.count_abonos = 2
    /\ Cardinality(CreditRows(df)) = 2

(***************************************************************************)
(* The memo table of best.  best is defined, with @lru_cache(None), inside *)
(* _reconcile_credits: each call of _reconcile_credits makes a new         *)
(* function best with a new, empty cache, keyed by (pos, k, s).  A cache   *)
(* is a function from keys <<pos, k, s>> to results.                       *)
(***************************************************************************)
Unsolved(cache) == [sol |-> NoSolution, cache |-> cache]

\* The result r of a computed call is stored under key.
Stored(key, r) == [sol |-> r.sol, cache |-> (key :> r.sol) @@ r.cache]

\* The choice between take (t) and skip (sk) at candidate i.
Picked(C, i, t, sk) ==
    [sol |-> IF sk.sol.found /\ (~t.sol.found \/ sk.sol.score > t.sol.score + C.scores[i])
             THEN sk.sol
             ELSE IF t.sol.found
             THEN Solution(t.sol.score + C.scores[i], <<i>> \o t.sol.tuple)
             ELSE NoSolution,
     cache |-> sk.cache]

\* best(pos, k, s) through the cache: the result and the cache after it.
RECURSIVE best_cached(_, _, _, _, _)
Skipped(C, i, t, pos, k, s) == Picked(C, i, t, best_cached(C, t.cache, pos + 1, k, s))

Taken(C, cache, i, pos, k, s) ==
    Skipped(C, i,
            IF C.cents[i] <= s
            THEN best_cached(C, cache, pos + 1, k - 1, s - C.cents[i])
            ELSE Unsolved(cache),
            pos, k, s)

Bounded(C, cache, remaining, pos, k, s) ==
    IF SumSeq(Take(Reverse(sorted(remaining)), k)) < s THEN Unsolved(cache)
    ELSE IF SumSeq(Take(sorted(remaining), k)) > s THEN Unsolved(cache)
    ELSE Taken(C, cache, C.candidates[pos + 1], pos, k, s)

Computed(C, cache, n, pos, k, s) ==
    IF k = 0 THEN [sol |-> IF s = 0 THEN Solution(0, <<>>) ELSE NoSolution, cache |-> cache]
    ELSE IF pos >= n THEN Unsolved(cache)
    ELSE IF n - pos < k THEN Unsolved(cache)
    ELSE Bounded(C, cache, [j \in 1..(n - pos) |-> C.cents[C.candidates[pos + j]]],
                 pos, k, s)

best_cached(C, cache, pos, k, s) ==
    IF <<pos, k, s>> \in DOMAIN cache
    THEN [sol |-> cache[<<pos, k, s>>], cache |-> cache]
    ELSE Stored(<<pos, k, s>>, Computed(C, cache, Len(C.candidates), pos, k, s))

\* A variant in which best and its cache belong to the module: a call
\* finds the entries that the other calls have written.
cache_of_module(c, p) ==
    IF p = 1 THEN c[1].cache @@ c[2].cache ELSE c[2].cache @@ c[1].cache

\* The cache that the search of call p reads and writes: that of the best
\* which this call has defined.
cache_of(c, p) == c[p].cache

\* The locals of call p before the search.
SeedLocalsOf(frame, t, is_seed_credit) ==
    SeedLocals(frame, t, is_seed_credit, IndicesWhere(is_seed_credit, TRUE, Len(frame)))

CallSeeds(c) ==
    SeedLocalsOf(c.frame, c.totals,
                 [i \in 1..Len(c.frame) |-> _seed_credit(c.frame[i].description)])

CallCandidates(c) ==
    Candidates(c.frame, IndicesWhere(CallSeeds(c).is_seed_credit, FALSE, Len(c.frame)))

\* A variant without the copy: the local name df stays bound to the frame
\* of the caller.
copy_none(c) == [c EXCEPT !.df = c.frame, !.aliased = TRUE]

\* df = df.copy(): the local name df is bound to a new frame, equal to the
\* frame of the caller.
copy(c) == [c EXCEPT !.df = c.frame, !.aliased = FALSE]

\* A write to the frame that the local name df is bound to: it is a write
\* to the frame of the caller when the two are one object.
Written(c, frame) ==
    [c EXCEPT !.df = frame, !.frame = IF c.aliased THEN frame ELSE c.frame]

\* df["is_seed_credit"] = df["description"].apply(_seed_credit)
SeedMarked(frame, is_seed_credit) ==
    [i \in 1..Len(frame) |->
        [date |-> frame[i].date,
         liq_date |-> frame[i].liq_date,
         description |-> frame[i].description,
         amount |-> frame[i].amount,
         direction |-> frame[i].direction,
         source |-> frame[i].source,
         is_seed_credit |-> is_seed_credit[i]]]

\* return df
ReturnedCall(c) == [c EXCEPT !.pc = "returned", !.out = c.df]

\* Lines 146-161: the early return, or candidates and a new best.
Branched(c, S) ==
    IF S.remaining_k <= 0
    THEN ReturnedCall(Written(c, Directed(c.df, SearchLocals(S, NoSolution))))
    ELSE [c EXCEPT !.pc = "search", !.cache = <<>>]

\* Lines 134-161: the copy, the seeds, and what follows them.
Entered(c, S) == Branched(Written(copy(c), SeedMarked(c.frame, S.is_seed_credit)), S)

EnterReconcile(p) ==
    /\ calls[p].pc = "called"
    /\ calls' = [calls EXCEPT ![p] = Entered(calls[p], CallSeeds(calls[p]))]
    /\ UNCHANGED <<main_vars, score_arg, score_ret, ledger>>

\* Line 197: sc, sol = best(0, remaining_k, remaining_sum)
Searched_call(c, r) == [c EXCEPT !.pc = "assign", !.sol = r.sol, !.cache = r.cache]

SearchWith(c, S, cache) ==
    Searched_call(c, best_cached(CallCandidates(c), cache, 0, S.remaining_k, S.remaining_sum))

RunSearch(p) ==
    /\ calls[p].pc = "search"
    /\ calls' = [calls EXCEPT
                    ![p] = SearchWith(calls[p], CallSeeds(calls[p]), cache_of(calls, p))]
    /\ UNCHANGED <<main_vars, score_arg, score_ret, ledger>>

\* Lines 198-201: the credit set, the directions, the return.
Assigned(c) ==
    ReturnedCall(Written(c, Directed(c.df, SearchLocals(CallSeeds(c), c.sol))))

ReturnReconciled(p) ==
    /\ calls[p].pc = "assign"
    /\ calls' = [calls EXCEPT ![p] = Assigned(calls[p])]
    /\ UNCHANGED <<main_vars, score_arg, score_ret, ledger>>

\* Two statements are reconciled at once.
Callers == {1, 2}

MemoRecord(description, amount) == SampleRecord(description, amount)

MemoFrames ==
    {<<MemoRecord("Abono", 5000), MemoRecord("Abono", 5000), MemoRecord("Abono", 5000)>>,
     <<MemoRecord("Abono", 10000), MemoRecord("Abono", 5000), MemoRecord("RETIRO", 5000)>>,
     <<MemoRecord("RETIRO", 10000), MemoRecord("RETIRO", 5000), MemoRecord("Abono", 5000)>>,
     <<MemoRecord("Abono", 10000), MemoRecord("Abono", 10000), MemoRecord("Abono", 5000)>>,
     <<MemoRecord("Pago de Nomina", 10000), MemoRecord("Abono", 5000),
       MemoRecord("Abono", 5000)>>,
     <<MemoRecord("Pago de Nomina", 10000), MemoRecord("RETIRO", 5000)>>,
     <<MemoRecord("Abono", 5000)>>}

MemoTotals ==
    {[present |-> TRUE, total_cargos |-> 0, count_cargos |-> 0,
      total_abonos |-> s, count_abonos |-> k] :
        s \in {5000, 10000, 15000}, k \in 1..2}

\* A call at its entry: the parameter df is the frame of the caller.
NewCall(frame, t) ==
    [pc |-> "called", frame |-> frame, df |-> frame, aliased |-> TRUE, totals |-> t,
     cache |-> <<>>, sol |-> NoSolution, out |-> <<>>]

InitMemo ==
    /\ pc = "idle"
    /\ pages_text = <<>>
    /\ period = NoPeriod
    /\ totals = NoTotals
    /\ lines = <<>>
    /\ txs = <<>>
    /\ current = NoCurrent
    /\ records = <<>>
    /\ df = <<>>
    /\ ret = Running
    /\ prev = NoCall
    /\ conn = <<>>
    /\ dedup = TRUE
    /\ score_arg = ""
    /\ score_ret = NoScore
    /\ calls \in [Callers -> {NewCall(f, t) : f \in MemoFrames, t \in MemoTotals}]
    /\ ledger = NoLedger

NextMemo ==
    \E p \in Callers : EnterReconcile(p) \/ RunSearch(p) \/ ReturnReconciled(p)

SpecMemo == InitMemo /\ [][NextMemo]_vars

\* The entries of the cache are results of best on the candidates C.
EntriesOf(cache, C) ==
    \A key \in DOMAIN cache : cache[key] = best(C, key[1], key[2], key[3])

\* Call p has returned what a call alone returns, and its cache holds
\* nothing but results for its own candidates.
CallAlone(c) ==
    /\ c.pc = "returned" => c.out = _reconcile_credits(c.frame, c.totals)
    /\ EntriesOf(c.cache, CallCandidates(c))

(***************************************************************************)
(* C23: the memo table of the search is scoped to a single reconciliation  *)
(* call: in every interleaving of two reconciliation calls on any two      *)
(* statements, each call returns what that call returns run alone with an  *)
(* empty memo table, and the memo table of a call holds no entry but the   *)
(* results of its own search.                                              *)
(***************************************************************************)
C23_MemoIsPerCall == \A p \in Callers : CallAlone(calls[p])

\* Both calls have returned, on different statements, and their caches
\* hold different results under one key.
C23_Witness ==
    /\ \A p \in Callers : calls[p].pc = "returned"
    /\ calls[1].frame # calls[2].frame
    /\ \E key \in DOMAIN calls[1].cache \cap DOMAIN calls[2].cache :
        /\ calls[1].cache[key] # calls[2].cache[key]
        /\ calls[1].cache[key].found
        /\ calls[2].cache[key].found
    /\ CreditRows(calls[1].out) # CreditRows(calls[2].out)

\* The frame that call c returned has the records of its input, in order,
\* each with its dates, description, amount and source, and a direction.
OnlyClassified(c) ==
    /\ Len(c.out) = Len(c.frame)
    /\ \A i \in 1..Len(c.frame) :
        /\ c.out[i].date = c.frame[i].date
        /\ c.out[i].liq_date = c.frame[i].liq_date
        /\ c.out[i].description = c.frame[i].description
        /\ c.out[i].amount = c.frame[i].amount
        /\ c.out[i].source = c.frame[i].source
        /\ c.out[i].direction \in {"credit", "debit"}

\* No step of a call writes to the frame of its caller.
InputKept == \A p \in Callers : calls'[p].frame = calls[p].frame

ReturnedOnlyClassified ==
    \A p \in Callers : calls[p].pc = "returned" => OnlyClassified(calls[p])

(***************************************************************************)
(* C24: reconciliation changes only the classification: the frame that     *)
(* _reconcile_credits returns has the records of its input, as many and in *)
(* the same order, each with its operation date, liquidation date,         *)
(* description, amount and source unchanged and with the direction credit  *)
(* or debit; the frame of the caller is not written to.                    *)
(***************************************************************************)
C24_OnlyTheClassificationChanges == [][InputKept]_vars /\ []ReturnedOnlyClassified

\* A call has returned a frame in which a record that came in as debit is
\* credit, and the frame of the caller still has it as debit.
C24_Witness ==
    /\ calls[1].pc = "returned"
    /\ Len(calls[1].frame) = 3
    /\ \E i \in 1..3 :
        /\ calls[1].frame[i].direction = "debit"
        /\ calls[1].out[i].direction = "credit"
    /\ \E i \in 1..3 :
        /\ calls[1].frame[i].direction = "credit"
        /\ calls[1].out[i].direction = "credit"
    /\ \E i \in 1..3 : calls[1].out[i].direction = "debit"

(***************************************************************************)
(* The date resolver on the dates of the period: one transaction whose     *)
(* tokens are formed from dates inside the period.                         *)
(***************************************************************************)
\* The abbreviation that names month m in the statement.
Abbreviation(m) == CHOOSE k \in DOMAIN MONTHS : MONTHS[k] = m

\* The token DD/ABBR of the date d.
Token(d) == TwoDigits(d[3]) \o "/" \o Abbreviation(d[2])

\* The calendar dates from p.start to p.end.
DatesIn(p) ==
    {d \in (p.start[1]..p.end[1]) \X (1..12) \X (1..31) :
        IsDate(d[1], d[2], d[3]) /\ DateLeq(p.start, d) /\ DateLeq(d, p.end)}

\* The period lies in one calendar year, or crosses one year boundary and
\* ends in a month before its start month.
WithinAYear(p) ==
    /\ DateLeq(p.start, p.end)
    /\ \/ p.start[1] = p.end[1]
       \/ p.end[1] = p.start[1] + 1 /\ p.end[2] < p.start[2]

RoundTripPeriods ==
    {[parsed |-> TRUE, start |-> <<2025, 12, 3>>, end |-> <<2026, 1, 2>>],
     [parsed |-> TRUE, start |-> <<2024, 2, 1>>, end |-> <<2024, 2, 29>>],
     [parsed |-> TRUE, start |-> <<2025, 6, 15>>, end |-> <<2025, 7, 14>>],
     [parsed |-> TRUE, start |-> <<2023, 11, 20>>, end |-> <<2024, 2, 10>>],
     [parsed |-> TRUE, start |-> <<2025, 3, 5>>, end |-> <<2025, 3, 5>>]}

InitRoundTrip ==
    /\ pc = "records"
    /\ pages_text = <<>>
    /\ period \in RoundTripPeriods
    /\ totals = NoTotals
    /\ lines = <<>>
    /\ txs \in {<<SampleTransaction(Token(d), Token(l))>> :
                    d \in DatesIn(period), l \in {period.start, period.end}}
    /\ current = NoCurrent
    /\ records = <<>>
    /\ df = <<>>
    /\ ret = Running
    /\ prev = NoCall
    /\ conn = <<>>
    /\ dedup = TRUE
    /\ NoCalls

NextRoundTrip == BuildRecords

SpecRoundTrip == InitRoundTrip /\ [][NextRoundTrip]_vars

\* The dates of the period p that the token names.
Named(token, p) == {d \in DatesIn(p) : Token(d) = token}

(***************************************************************************)
(* C25: round trip of the date resolver: for every period with start <=    *)
(* end that lies in one calendar year, or crosses one year boundary with   *)
(* its end month before its start month, and every calendar date d inside  *)
(* the period, the token DD/ABBR formed from the day and the month of d    *)
(* resolves against that period to d exactly; so for the operation date    *)
(* and, independently, for the liquidation date.                           *)
(***************************************************************************)
C25_TokenResolvesToItsDate ==
    (pc # "records" /\ WithinAYear(period)) =>
        /\ pc = "sort"
        /\ \A d \in Named(txs[1].op_raw, period) : records[1].date = d
        /\ \A l \in Named(txs[1].liq_raw, period) : records[1].liq_date = l

\* A date after the year boundary, liquidated on the first day of the period.
C25_Witness ==
    /\ pc = "sort"
    /\ period.start = <<2023, 11, 20>>
    /\ period.end = <<2024, 2, 10>>
    /\ <<2024, 1, 31>> \in Named(txs[1].op_raw, period)
    /\ txs[1].op_raw = "31/ENE"
    /\ txs[1].liq_raw = "20/NOV"
    /\ records[1].date = <<2024, 1, 31>>
    /\ records[1].liq_date = <<2023, 11, 20>>

(***************************************************************************)
(* compute_daily_ledger (lib/ledger.py, and the copy of it in the page     *)
(* pages/1_Interest_funding.py, whose accounts are the constant ACCOUNTS). *)
(* A date is its day number (date.toordinal); an amount is a whole number  *)
(* of a unit small enough that every product of the sample values is       *)
(* whole; the daily rate annual_rate / day_basis is kept as its two parts. *)
(***************************************************************************)
MaxDay == 5

\* if end < start: start, end = end, start
first_day(start, end) == IF end < start THEN end ELSE start
last_day(start, end) == IF end < start THEN start ELSE end

\* The flows of the transactions, one or two for each.
RECURSIVE flows_of(_, _)
flows_of(transactions, accounts) ==
    IF transactions = <<>> THEN <<>>
    ELSE (IF Head(transactions).from_account \in Range(accounts)
          THEN <<[date |-> Head(transactions).tx_date,
                  account |-> Head(transactions).from_account,
                  flow |-> 0 - Head(transactions).amount]>>
          ELSE <<>>)
         \o (IF Head(transactions).to_account \in Range(accounts)
             THEN <<[date |-> Head(transactions).tx_date,
                     account |-> Head(transactions).to_account,
                     flow |-> Head(transactions).amount]>>
             ELSE <<>>)
         \o flows_of(Tail(transactions), accounts)

\* float(flow_df.loc[mask, "flow"].sum()) if mask.any() else 0.0
net_flow_of(flows, today, a) ==
    SumSeq([j \in 1..Len(flows) |->
                IF flows[j].date = today /\ flows[j].account = a
                THEN flows[j].flow ELSE 0])

\* interest = bal_for_interest * (annual_rate / day_basis), or 0.0
interest_of(bal_for_interest, params) ==
    IF params.annual_rate > 0 /\ bal_for_interest > 0
    THEN (bal_for_interest * params.annual_rate) \div params.day_basis
    ELSE 0

\* a in opening_map and opening_map[a][0] == current (today)
is_opening_day(opening_map, a, today) ==
    a \in DOMAIN opening_map /\ opening_map[a].date = today

\* The override of the opening day.
Opened_account(L, a, amount) ==
    [L EXCEPT !.balances = [@ EXCEPT ![a] = amount],
              !.cum_interest = [@ EXCEPT ![a] = 0]]

\* The row of account a on the day today, from bal_start on.
Accrued(L, a, today, bal_start, net_flow, interest) ==
    [L EXCEPT !.balances = [@ EXCEPT ![a] = bal_start + net_flow + interest],
              !.cum_interest = [@ EXCEPT ![a] = @ + interest],
              !.rows = Append(@, [Fecha |-> today,
                                  Cuenta |-> a,
                                  Saldo_inicial |-> bal_start,
                                  Flujo_neto |-> net_flow,
                                  Interes_del_dia |-> interest,
                                  Interes_acumulado |-> L.cum_interest[a] + interest,
                                  Saldo_final |-> bal_start + net_flow + interest])]

WithFlow(L, a, today, bal_start, net_flow) ==
    Accrued(L, a, today, bal_start, net_flow,
            interest_of(bal_start + net_flow, L.account_params[a]))

FromBalance(L, a, today) ==
    WithFlow(L, a, today, L.balances[a], net_flow_of(L.flows, today, a))

\* The body of "for a in accounts" for the account a.
account_day(L, a, today) ==
    FromBalance(IF is_opening_day(L.opening_map, a, today)
                THEN Opened_account(L, a, L.opening_map[a].amount)
                ELSE L,
                a, today)

\* for a in accounts, from the n-th account on.
RECURSIVE accounts_day(_, _, _)
accounts_day(L, n, today) ==
    IF n > Len(L.accounts) THEN L
    ELSE accounts_day(account_day(L, L.accounts[n], today), n + 1, today)

\* Lines 23-49: the range in order, the flows, and the locals of the loop.
EnterLedger ==
    /\ ledger.pc = "called"
    /\ ledger' =
        [pc |-> "loop",
         accounts |-> ledger.accounts,
         account_params |-> ledger.account_params,
         start |-> first_day(ledger.start, ledger.end),
         end |-> last_day(ledger.start, ledger.end),
         flows |-> flows_of(ledger.transactions, ledger.accounts),
         days |-> last_day(ledger.start, ledger.end) - first_day(ledger.start, ledger.end) + 1,
         i |-> 0,
         balances |-> [a \in Range(ledger.accounts) |-> 0],
         cum_interest |-> [a \in Range(ledger.accounts) |-> 0],
         opening_map |-> ledger.opening,
         rows |-> <<>>]
    /\ UNCHANGED <<main_vars, score_arg, score_ret, calls>>

NextDay(L) == [L EXCEPT !.i = @ + 1]

\* One day of "for i in range(days)".
LedgerDay ==
    /\ ledger.pc = "loop"
    /\ ledger.i < ledger.days
    /\ ledger' = NextDay(accounts_day(ledger, 1, ledger.start + ledger.i))
    /\ UNCHANGED <<main_vars, score_arg, score_ret, calls>>

\* return pd.DataFrame(rows)
ReturnLedger ==
    /\ ledger.pc = "loop"
    /\ ledger.i = ledger.days
    /\ ledger' = [ledger EXCEPT !.pc = "returned"]
    /\ UNCHANGED <<main_vars, score_arg, score_ret, calls>>

\* Two of the accounts: one without interest, one with a quarter a day.
LedgerAccounts == <<"BBVA", "Nu Turbo">>

LedgerParams ==
    [a \in Range(LedgerAccounts) |->
        IF a = "BBVA" THEN [annual_rate |-> 0, day_basis |-> 360]
        ELSE [annual_rate |-> 90, day_basis |-> 360]]

LedgerDays == 3..MaxDay

\* Opening balances: for some of the accounts, a date before, in or after
\* the range and an amount.
LedgerOpenings ==
    UNION {[S -> {[date |-> d, amount |-> 6400] : d \in {2, 3, 4, MaxDay + 1}}] :
            S \in SUBSET Range(LedgerAccounts)}

LedgerTransaction(d, from, to, amount) ==
    [tx_date |-> d, from_account |-> from, to_account |-> to, amount |-> amount]

LedgerTransactions ==
    {<<>>,
     <<LedgerTransaction(4, "BBVA", "Nu Turbo", 1280)>>,
     <<LedgerTransaction(3, EXTERNAL, "BBVA", 640),
       LedgerTransaction(3, "Nu Turbo", EXTERNAL, 1280)>>}

InitLedger ==
    /\ pc = "idle"
    /\ pages_text = <<>>
    /\ period = NoPeriod
    /\ totals = NoTotals
    /\ lines = <<>>
    /\ txs = <<>>
    /\ current = NoCurrent
    /\ records = <<>>
    /\ df = <<>>
    /\ ret = Running
    /\ prev = NoCall
    /\ conn = <<>>
    /\ dedup = TRUE
    /\ score_arg = ""
    /\ score_ret = NoScore
    /\ calls = <<>>
    /\ \E s \in LedgerDays, e \in LedgerDays, o \in LedgerOpenings,
          t \in LedgerTransactions :
        ledger = [pc |-> "called", transactions |-> t, accounts |-> LedgerAccounts,
                  account_params |-> LedgerParams, opening |-> o, start |-> s, end |-> e]

NextLedger == EnterLedger \/ LedgerDay \/ ReturnLedger

SpecLedger == InitLedger /\ [][NextLedger]_vars

\* The row of account a on the day d.
RowsOf(rows, a, d) == {j \in 1..Len(rows) : rows[j].Cuenta = a /\ rows[j].Fecha = d}

\* The balance of account a at the start of the day d, carried day by day
\* from the amount with which it opened on the day od <= d.
RECURSIVE Carried(_, _, _, _, _)
Carried(L, a, balance, od, d) ==
    IF od >= d THEN balance
    ELSE Carried(L, a,
                 balance + net_flow_of(L.flows, od, a)
                    + interest_of(balance + net_flow_of(L.flows, od, a), L.account_params[a]),
                 od + 1, d)

\* The account a opened on or before the first day of the range.
OpenedByStart(L, a) == a \in DOMAIN L.opening_map /\ L.opening_map[a].date <= L.start

OpeningApplied(L, a) ==
    /\ \A j \in RowsOf(L.rows, a, L.start) :
        L.rows[j].Saldo_inicial =
            Carried(L, a, L.opening_map[a].amount, L.opening_map[a].date, L.start)
    /\ \A d \in (L.start + 1)..L.end :
        \A j \in RowsOf(L.rows, a, d) : \A k \in RowsOf(L.rows, a, d - 1) :
            L.rows[j].Saldo_inicial = L.rows[k].Saldo_final

(***************************************************************************)
(* C26: in compute_daily_ledger the opening balance of an account is       *)
(* applied when its opening date is equal to or earlier than the start of  *)
(* the requested range: for every account and every range with opening     *)
(* date <= start, the starting balance of the account on the first day of  *)
(* the range is the opening amount, carried to that day, and the starting  *)
(* balance of each later day is the ending balance of the day before.      *)
(***************************************************************************)
C26_OpeningAppliedFromStart ==
    ledger.pc = "returned" =>
        \A a \in Range(ledger.accounts) :
            OpenedByStart(ledger, a) => OpeningApplied(ledger, a)

====
